---------------------------- MODULE Spec2Model ----------------------------
(***************************************************************************)
(* Antibot challenge detection and resolution engine of the screenshot     *)
(* processor (src/handlers/antibot_handler.py, cloudflare_handler.py,      *)
(* src/utils/human_behavior.py).                                           *)
(*                                                                         *)
(* The page is an abstract DOM: a title (a sequence of tokens) and, for    *)
(* every kind of element a selector of the handlers can tell apart, its    *)
(* status (absent, hidden = attached without a bounding box, visible).     *)
(* A page operation that raises is a fault site: the statement of the      *)
(* handler that raises when control reaches it.                            *)
(***************************************************************************)
EXTENDS Integers, Sequences, FiniteSets, TLC

VARIABLES
    title,      \* page title, a sequence of tokens
    dom,        \* element kind -> "absent" | "hidden" | "visible"
    op,         \* the public operation in progress or finished
    pc,         \* position inside the operation
    faults,     \* fault sites injected into the last step
    detection,  \* the record detect_antibot returned
    ret,        \* "none" | "true" | "false" | "raised"
    events,     \* pointer events issued by the last solver call, in order
    calls,      \* solvers invoked by auto_solve, in order, with results
    cf,         \* frame of the managed-challenge full-solve routine
    strategy,   \* strategy the widget solver ended in (0 = none)
    solved_any, \* auto_solve's accumulator
    args        \* arguments, random draws and loop locals of a direct call

vars == <<title, dom, op, pc, faults, detection, ret, events, calls, cf,
          strategy, solved_any, args>>

(***************************************************************************)
(* Bounds                                                                  *)
(***************************************************************************)
\* at most this many elements of interest are attached to a page
MaxElems == 2
\* at most this many statements raise inside one step
MaxFaults == 1

(***************************************************************************)
(* Titles                                                                  *)
(***************************************************************************)
LowerTok(w) ==
    CASE w = "Just" -> "just"
      [] w = "Attention" -> "attention"
      [] w = "Required" -> "required"
      [] w = "Access" -> "access"
      [] w = "Denied" -> "denied"
      [] w = "Security" -> "security"
      [] w = "Verify" -> "verify"
      [] w = "Shop" -> "shop"
      [] w = "Forbidden" -> "forbidden"
      [] w = "Accept" -> "accept"
      [] w = "All" -> "all"
      [] w = "Allow" -> "allow"
      [] w = "Manage" -> "manage"
      [] w = "Confirm" -> "confirm"
      [] w = "My" -> "my"
      [] w = "Choices" -> "choices"
      [] w = "Reject" -> "reject"
      [] w = "Cookies" -> "cookies"
      [] w = "Accepter" -> "accepter"
      [] w = "Tout" -> "tout"
      [] w = "Akzeptieren" -> "akzeptieren"
      [] w = "Alle" -> "alle"
      [] w = "Aceptar" -> "aceptar"
      [] w = "Accetta" -> "accetta"
      [] w = "I" -> "i"
      [] w = "Agree" -> "agree"
      [] w = "OK" -> "ok"
      [] w = "Privacy" -> "privacy"
      [] w = "Execution" -> "execution"
      [] w = "Navigation" -> "navigation"
      [] w = "Target" -> "target"
      [] OTHER -> w

\* str.lower() on a title
Lower(t) == [i \in 1..Len(t) |-> LowerTok(t[i])]

\* phrase in text, on token sequences
Contains(t, phrase) ==
    \E i \in 1..(Len(t) - Len(phrase) + 1) :
        SubSeq(t, i, i + Len(phrase) - 1) = phrase

ContainsAny(t, phrases) == \E p \in phrases : Contains(t, p)

TitleShop == <<"Shop">>
TitleJustAMoment == <<"Just", "a", "moment", "...">>

Titles ==
    { TitleShop,
      TitleJustAMoment,
      <<"Attention", "Required", "!">>,
      <<"Access", "Denied">>,
      <<"403", "Forbidden">>,
      <<"Security", "check">>,
      <<"Verify", "your", "identity">> }

CfTitleIndicators ==
    { <<"just", "a", "moment">>, <<"attention", "required">>,
      <<"one", "more", "step">> }

BlockedTitleTerms == { <<"access", "denied">>, <<"blocked">>, <<"forbidden">> }

\* the title terms without the managed-challenge phrase
HumanVerifyTitleTerms_NoMoment ==
    { <<"verify">>, <<"security", "check">>, <<"challenge">> }

HumanVerifyTitleTerms ==
    { <<"just", "a", "moment">>, <<"verify">>, <<"security", "check">>,
      <<"challenge">> }

(***************************************************************************)
(* Element kinds and the selectors that match them                         *)
(***************************************************************************)
\* kinds whose bounding box or visibility some handler inspects
BoxKinds ==
    { "ifr_cf_turnstile",   \* iframe src=challenges.cloudflare.com/...turnstile
      "ifr_cf_host",        \* iframe src=challenges.cloudflare.com/...
      "ifr_cf_widget",      \* iframe id=cf-chl-widget-...
      "div_cf_turnstile",   \* element with id=cf-turnstile
      "div_turnstile_cls",  \* element with class cf-turnstile
      "text_verify_human",  \* element with text 'Verify you are human'
      "input_cf_response",  \* input name=cf-turnstile-response
      "cb_label_cb",        \* label.cb-lb input[type=checkbox]
      "cb_label_text",      \* label:has-text('I am human') input[type=checkbox]
      "cb_captcha",         \* [class*=captcha] input[type=checkbox]
      "cb_robot",           \* input[type=checkbox][name*=robot]
      "cb_plain",           \* input[type=checkbox]
      "slider_track",       \* element with class slider
      "slider_handle",      \* element with class geetest
      "press_hold_btn",     \* element with class press
      "recaptcha_anchor",   \* #recaptcha-anchor inside the reCAPTCHA frame
      "puzzle_btn",         \* [class*=verify] [class*=btn]
      "puzzle_js_btn" }     \* button the puzzle fallback script finds

\* kinds that are only counted
CountKinds ==
    { "ifr_recaptcha",      \* iframe src contains recaptcha
      "ifr_hcaptcha",       \* iframe src contains hcaptcha
      "div_grid",           \* div style=display: grid of widget size
      "code_ray_id",        \* code element with text Ray ID
      "script_cp",          \* script src contains challenge-platform
      "text_slide" }        \* element with text 'Slide to complete'

Kinds == BoxKinds \cup CountKinds

\* buttons and links of a cookie banner
CookieKinds ==
    { "ck_manage",          \* button 'Manage preferences'
      "ck_accept_manage",   \* button 'Accept all or manage preferences'
      "ck_accept_all",      \* button 'Accept All'
      "ck_onetrust",        \* button id=onetrust-accept-btn-handler, text 'OK'
      "ck_allow_settings",  \* button 'Allow all in settings'
      "ck_allow_all",       \* button 'Allow all'
      "ck_link_accept",     \* a 'Accept All'
      "ck_reject_all" }     \* button 'Reject All'

\* what the cookie-banner detection looks at besides the buttons
CookieBoxKinds ==
    { "ck_banner_box",      \* div class=cookie-banner
      "ck_onetrust_box",    \* div id=onetrust-banner-sdk
      "ck_privacy_link" }   \* a 'Privacy policy' in the page footer

\* modal containers and their close buttons
ModalKinds ==
    { "md_aria_close",      \* button aria-label=Close, outside any container
      "md_modal_box",       \* div class=modal
      "md_modal_close",     \* button class=close inside the div class=modal
      "md_nudge_box",       \* div class=nudge
      "md_nudge_close" }    \* button class=close inside the div class=nudge

OverlayKinds == CookieKinds \cup ModalKinds

StatusOf(k) ==
    IF k \in BoxKinds \cup OverlayKinds \cup CookieBoxKinds THEN {"absent", "hidden", "visible"}
    ELSE {"absent", "visible"}

Attached(d) == {k \in Kinds : d[k] # "absent"}

EmptyDom == [k \in Kinds \cup OverlayKinds \cup CookieBoxKinds |-> "absent"]

\* the pages over a set of kinds with at most n attached elements
RECURSIVE DomsOver(_, _)
DomsOver(K, n) ==
    IF n = 0 \/ K = {} THEN {EmptyDom}
    ELSE LET k == CHOOSE x \in K : TRUE
             rest == DomsOver(K \ {k}, n)
             less == DomsOver(K \ {k}, n - 1)
         IN rest \cup
            { [d EXCEPT ![k] = s] : d \in less, s \in StatusOf(k) \ {"absent"} }

\* locator(sel).count() > 0
Present(d, sel) == \E k \in sel : d[k] # "absent"

\* document order of the kinds, for locator(sel).first
DocOrder ==
    << "ifr_recaptcha", "recaptcha_anchor", "ifr_hcaptcha",
       "ifr_cf_turnstile", "ifr_cf_host", "ifr_cf_widget",
       "div_cf_turnstile", "div_turnstile_cls", "div_grid",
       "code_ray_id", "script_cp", "text_verify_human",
       "input_cf_response", "cb_label_cb", "cb_label_text",
       "cb_captcha", "cb_robot", "cb_plain",
       "slider_track", "slider_handle", "press_hold_btn",
       "text_slide", "puzzle_btn", "puzzle_js_btn",
       "ck_manage", "ck_accept_manage", "ck_accept_all", "ck_onetrust",
       "ck_allow_settings", "ck_allow_all", "ck_link_accept",
       "md_aria_close", "md_modal_box", "md_modal_close",
       "md_nudge_box", "md_nudge_close",
       "ck_reject_all", "ck_banner_box", "ck_onetrust_box", "ck_privacy_link" >>

Pos(k) == CHOOSE i \in 1..Len(DocOrder) : DocOrder[i] = k

\* locator(sel).first: the first attached element the selector matches
First(d, sel) ==
    LET m == {k \in sel : d[k] # "absent"}
    IN CHOOSE k \in m : \A j \in m : Pos(k) <= Pos(j)

\* selectors of CAPTCHA_SELECTORS and the inline ones
SelRecaptcha == {"ifr_recaptcha"}
SelHcaptcha == {"ifr_hcaptcha"}
SelCfCheckbox == {"ifr_cf_turnstile", "ifr_cf_host"}
SelCfTurnstileId == {"div_cf_turnstile"}
SelCfHostIframe == {"ifr_cf_turnstile", "ifr_cf_host"}
SelCfTurnstileIframe == {"ifr_cf_turnstile"}
SelCfWidgetIframe == {"ifr_cf_widget"}
SelSliderTrack == {"slider_track"}
SelSliderHandle == {"slider_handle"}
SelPressHold == {"press_hold_btn"}
\* a robot-checkbox selector that matches every checkbox
SelRobotCheckbox_Any ==
    {"cb_label_cb", "cb_label_text", "cb_captcha", "cb_robot", "cb_plain"}

SelRobotCheckbox == {"cb_robot"}
SelAnyCheckbox == {"cb_label_cb", "cb_label_text", "cb_captcha", "cb_robot", "cb_plain"}
SelHumanVerifyCheckbox == {"cb_captcha"}
SelTurnstileClass == {"div_turnstile_cls"}
SelVerifyText == {"text_verify_human"}
SelRayId == {"code_ray_id"}
SelChallengeScript == {"script_cp"}
SelResponseInput == {"input_cf_response"}
SelLabelCb == {"cb_label_cb"}
SelLabelText == {"cb_label_text"}
SelSlideText == {"text_slide"}
SelPuzzleHandle == {"puzzle_btn"}

(***************************************************************************)
(* Challenge classifier                                                    *)
(***************************************************************************)
Flags ==
    { "has_recaptcha", "has_hcaptcha", "has_cloudflare",
      "has_cloudflare_turnstile", "has_slider", "has_press_hold",
      "has_checkbox", "has_human_verify", "is_blocked" }

NoFlags == [f \in Flags |-> FALSE]

IsCfSites == {"iscf.title", "iscf.ray", "iscf.script", "iscf.text", "iscf.iframe"}

\* is_cloudflare_challenge_page: any raise inside is answered with False
is_cloudflare_challenge_page(t, d, F) ==
    IF "iscf.title" \in F THEN FALSE
    ELSE IF ContainsAny(Lower(t), CfTitleIndicators) THEN TRUE
    ELSE IF F \cap {"iscf.ray", "iscf.script", "iscf.text", "iscf.iframe"} # {}
         THEN FALSE
    ELSE \/ Present(d, SelRayId)
         \/ Present(d, SelChallengeScript)
         \/ Present(d, SelVerifyText)
         \/ Present(d, SelCfHostIframe)

\* the statements of detect_antibot in program order: the site of each
\* statement that may raise ("none" for a statement without a page query)
DetectSiteOf ==
    << "detect.title", "detect.recaptcha", "detect.hcaptcha", "none",
       "detect.cf_checkbox", "detect.cf_turnstile", "detect.cf_iframe",
       "detect.cf_widget", "detect.slider", "detect.press_hold",
       "detect.checkbox", "none", "detect.hv_class", "detect.hv_text", "none" >>

\* the frame tests setting the widget flag alone
DetectSetsOf_WidgetFlagAlone ==
    << {}, {"has_recaptcha"}, {"has_hcaptcha"},
       {"has_cloudflare", "has_cloudflare_turnstile"},
       {"has_cloudflare"}, {"has_cloudflare"},
       {"has_cloudflare_turnstile"},
       {"has_cloudflare_turnstile"},
       {"has_slider"}, {"has_press_hold"}, {"has_checkbox"}, {"is_blocked"},
       {"has_human_verify"}, {"has_human_verify"}, {"has_human_verify"} >>

\* the flags each statement sets when its test holds
DetectSetsOf ==
    << {}, {"has_recaptcha"}, {"has_hcaptcha"},
       {"has_cloudflare", "has_cloudflare_turnstile"},
       {"has_cloudflare"}, {"has_cloudflare"},
       {"has_cloudflare", "has_cloudflare_turnstile"},
       {"has_cloudflare", "has_cloudflare_turnstile"},
       {"has_slider"}, {"has_press_hold"}, {"has_checkbox"}, {"is_blocked"},
       {"has_human_verify"}, {"has_human_verify"}, {"has_human_verify"} >>

\* whether control reaches the statement (the human-verify tests are an
\* if / elif / elif chain)
DetectRuns(i, d) ==
    CASE i = 14 -> ~Present(d, SelTurnstileClass)
      [] i = 15 -> ~Present(d, SelTurnstileClass) /\ ~Present(d, SelVerifyText)
      [] OTHER -> TRUE

\* the test of the statement
DetectHit(i, t, d, F) ==
    CASE i = 1 -> FALSE
      [] i = 2 -> Present(d, SelRecaptcha)
      [] i = 3 -> Present(d, SelHcaptcha)
      [] i = 4 -> is_cloudflare_challenge_page(t, d, F)
      [] i = 5 -> Present(d, SelCfCheckbox)
      [] i = 6 -> Present(d, SelCfTurnstileId)
      [] i = 7 -> Present(d, SelCfHostIframe)
      [] i = 8 -> Present(d, SelCfWidgetIframe)
      [] i = 9 -> Present(d, SelSliderTrack)
      [] i = 10 -> Present(d, SelPressHold)
      [] i = 11 -> Present(d, SelRobotCheckbox)
      [] i = 12 -> ContainsAny(Lower(t), BlockedTitleTerms)
      [] i = 13 -> Present(d, SelTurnstileClass)
      [] i = 14 -> Present(d, SelVerifyText)
      [] i = 15 -> ContainsAny(Lower(t), HumanVerifyTitleTerms)

DetectSites ==
    { "detect.title", "detect.recaptcha", "detect.hcaptcha",
      "detect.cf_checkbox", "detect.cf_turnstile", "detect.cf_iframe",
      "detect.cf_widget", "detect.slider", "detect.press_hold",
      "detect.checkbox", "detect.hv_class", "detect.hv_text" } \cup IsCfSites

\* the first statement of detect_antibot that raises, 16 when none does
DetectStop(d, F) ==
    LET raising == {i \in 1..15 : DetectSiteOf[i] \in F /\ DetectRuns(i, d)}
    IN IF raising = {} THEN 16
       ELSE CHOOSE i \in raising : \A j \in raising : i <= j

\* detect_antibot: one try block around all checks; the first statement that
\* raises ends the classification with the flags set so far
detect_antibot(t, d, F) ==
    LET stop == DetectStop(d, F)
        set == UNION { DetectSetsOf[i] :
                       i \in {j \in 1..(stop - 1) :
                                 DetectRuns(j, d) /\ DetectHit(j, t, d, F)} }
    IN [f \in Flags |-> f \in set]

(***************************************************************************)
(* Fault sets                                                              *)
(***************************************************************************)
RECURSIVE SubsetsUpTo(_, _)
SubsetsUpTo(S, n) ==
    IF n = 0 THEN {{}}
    ELSE LET prev == SubsetsUpTo(S, n - 1)
         IN prev \cup {T \cup {x} : T \in prev, x \in S}

\* the sets of statements that raise in one step
FaultSets(sites) == SubsetsUpTo(sites, MaxFaults)

DetectFaultSets == FaultSets(DetectSites)

(***************************************************************************)
(* Bounding boxes and pointer primitives                                   *)
(* Boxes are in whole pixels; pointer coordinates are kept in quarter      *)
(* pixels so that width / 4 and height / 2 stay exact.                     *)
(***************************************************************************)
\* the box bounding_box() returns for a visible element of each kind
BoxOf(k) ==
    LET w == CASE k \in {"ifr_cf_turnstile", "ifr_cf_host", "ifr_cf_widget",
                         "div_cf_turnstile", "div_turnstile_cls", "div_grid",
                         "input_cf_response"} -> 300
               [] k \in {"text_verify_human", "slider_track"} -> 200
               [] k \in {"press_hold_btn"} -> 120
               [] k \in {"slider_handle", "puzzle_btn", "puzzle_js_btn"} -> 30
               [] OTHER -> 20
        h == CASE k \in {"ifr_cf_turnstile", "ifr_cf_host", "ifr_cf_widget",
                         "div_cf_turnstile", "div_turnstile_cls", "div_grid",
                         "input_cf_response"} -> 65
               [] k \in {"text_verify_human"} -> 24
               [] k \in {"press_hold_btn"} -> 40
               [] k \in {"slider_handle", "puzzle_btn", "puzzle_js_btn"} -> 30
               [] OTHER -> 20
    IN [x |-> 10 * Pos(k), y |-> 100 + 40 * Pos(k), width |-> w, height |-> h]

Ev(t, x, y) == [type |-> t, x |-> x, y |-> y]

Min(a, b) == IF a <= b THEN a ELSE b

\* centre of a box, in quarter pixels
CentreX(box) == 4 * box.x + 2 * box.width
CentreY(box) == 4 * box.y + 2 * box.height

\* a statement that issues no pointer event
NoEv == [type |-> "none", x |-> 0, y |-> 0]

IsPointerEvent(e) == e.type # "none"

\* a straight-line run of page operations: each has the site that may raise
\* and the pointer event it issues; the run stops at the first that raises
RunOps(ops, F) ==
    LET bad == {i \in 1..Len(ops) : ops[i].site \in F}
        stop == IF bad = {} THEN Len(ops) + 1
                ELSE CHOOSE i \in bad : \A j \in bad : i <= j
    IN [raised |-> bad # {},
        ev |-> SelectSeq(SubSeq([i \in 1..Len(ops) |-> ops[i].ev], 1, stop - 1),
                         IsPointerEvent)]

TurnstileTargetX_QuarterWidth(box) == 4 * box.x + box.width

\* click_x = box.x + min(35, box.width / 4), in quarter pixels
TurnstileTargetX(box) == 4 * box.x + Min(140, box.width)

\* click_y = box.y + box.height / 2, in quarter pixels
TurnstileTargetY(box) == 4 * box.y + 2 * box.height

\* _click_turnstile_checkbox: smooth move to the target, then click on it
_click_turnstile_checkbox(box, F) ==
    RunOps(<< [site |-> "tc.move",
               ev |-> Ev("move", TurnstileTargetX(box), TurnstileTargetY(box))],
              [site |-> "tc.click",
               ev |-> Ev("click", TurnstileTargetX(box), TurnstileTargetY(box))] >>, F)

\* _human_move_and_click: centre of the box plus jitter j, move then click
_human_move_and_click(box, j, F) ==
    RunOps(<< [site |-> "mc.move",
               ev |-> Ev("move", CentreX(box) + 4 * j[1], CentreY(box) + 4 * j[2])],
              [site |-> "mc.click",
               ev |-> Ev("click", CentreX(box) + 4 * j[1], CentreY(box) + 4 * j[2])] >>, F)

\* locator.click() on an element: raises when the element is not visible
\* (Playwright waits for visibility and times out) or when the site fails
ElementClick(d, k, site, F) ==
    IF site \in F \/ d[k] # "visible" THEN [raised |-> TRUE, ev |-> <<>>]
    ELSE [raised |-> FALSE,
          ev |-> <<Ev("click", CentreX(BoxOf(k)), CentreY(BoxOf(k)))>>]

(***************************************************************************)
(* Managed-challenge widget solver                                         *)
(***************************************************************************)
\* page.wait_for_load_state exceeding its timeout
WaitSite == "wait.timeout"

\* the wait without its try block: a timeout propagates to the caller
_wait_for_state_change_Unguarded(F) == WaitSite \in F

\* _wait_for_state_change (and HumanBehavior.wait_for_ready): TRUE when the
\* call raises; the timeout of wait_for_load_state is swallowed
_wait_for_state_change(F) == FALSE

\* a run of page operations followed by the wait
ThenWait(r, F) ==
    IF ~r.raised /\ _wait_for_state_change(F) THEN [raised |-> TRUE, ev |-> r.ev]
    ELSE r

TurnstileSites ==
    { WaitSite, "ts.s1.count", "ts.s1.box", "ts.s2.count", "ts.s2.box", "ts.s3.count",
      "ts.s3.box", "ts.s4.eval", "ts.s5.count", "ts.s5.eval", "ts.s6.count",
      "ts.s6.box", "ts.s7.count", "ts.s7.click", "ts.s8.count", "ts.s8.click",
      "tc.move", "tc.click" }

\* the element kinds the strategy-4 script probes, in the order of its
\* selector list
ProbeOrder == <<"div_grid", "div_turnstile_cls", "div_cf_turnstile">>

ProbeFound(d) == \E i \in 1..3 : d[ProbeOrder[i]] = "visible"

ProbeBox(d) ==
    BoxOf(ProbeOrder[CHOOSE i \in 1..3 :
                        /\ d[ProbeOrder[i]] = "visible"
                        /\ \A j \in 1..(i - 1) : d[ProbeOrder[j]] # "visible"])

\* the pseudo box strategy 6 places below the 'Verify you are human' text
WidgetBoxBelow(text_box) ==
    [x |-> text_box.x, y |-> text_box.y + text_box.height + 20,
     width |-> 300, height |-> 65]

\* a locator strategy (1, 2, 3, 6): count, first, bounding_box
\* "next" = fall through, "raise" = a page operation raised, "box" = act
LocateBox(d, sel, countSite, boxSite, F) ==
    IF countSite \in F THEN "raise"
    ELSE IF ~Present(d, sel) THEN "next"
    ELSE IF boxSite \in F THEN "raise"
    ELSE IF d[First(d, sel)] = "visible" THEN "box"
    ELSE "next"

\* what strategy i of solve_cloudflare_turnstile decides on page d
StrategyDecision(i, d, F) ==
    CASE i = 1 -> LocateBox(d, SelCfTurnstileIframe, "ts.s1.count", "ts.s1.box", F)
      [] i = 2 -> LocateBox(d, SelCfWidgetIframe, "ts.s2.count", "ts.s2.box", F)
      [] i = 3 -> LocateBox(d, SelCfHostIframe, "ts.s3.count", "ts.s3.box", F)
      [] i = 4 -> IF "ts.s4.eval" \in F THEN "raise"
                  ELSE IF ProbeFound(d) THEN "box" ELSE "next"
      [] i = 5 -> IF "ts.s5.count" \in F THEN "raise"
                  ELSE IF ~Present(d, SelResponseInput) THEN "next"
                  ELSE IF "ts.s5.eval" \in F THEN "raise"
                  ELSE IF d["input_cf_response"] = "visible" THEN "box"
                  ELSE "next"
      [] i = 6 -> LocateBox(d, SelVerifyText, "ts.s6.count", "ts.s6.box", F)
      [] i = 7 -> IF "ts.s7.count" \in F THEN "raise"
                  ELSE IF Present(d, SelLabelCb) THEN "click" ELSE "next"
      [] i = 8 -> IF "ts.s8.count" \in F THEN "raise"
                  ELSE IF Present(d, SelLabelText) THEN "click" ELSE "next"

\* the box strategy i hands to _click_turnstile_checkbox
StrategyBox(i, d) ==
    CASE i = 1 -> BoxOf(First(d, SelCfTurnstileIframe))
      [] i = 2 -> BoxOf(First(d, SelCfWidgetIframe))
      [] i = 3 -> BoxOf(First(d, SelCfHostIframe))
      [] i = 4 -> ProbeBox(d)
      [] i = 5 -> BoxOf("input_cf_response")
      [] i = 6 -> WidgetBoxBelow(BoxOf(First(d, SelVerifyText)))

\* strategies i.. of solve_cloudflare_turnstile; any raise ends the solver
\* with False (one try block around all strategies)
RECURSIVE TurnstileFrom(_, _, _)
TurnstileFrom(i, d, F) ==
    IF i > 8 THEN [ret |-> "false", ev |-> <<>>, strat |-> 0]
    ELSE LET dec == StrategyDecision(i, d, F)
         IN CASE dec = "next" -> TurnstileFrom(i + 1, d, F)
              [] dec = "raise" -> [ret |-> "false", ev |-> <<>>, strat |-> i]
              [] dec = "box" ->
                    LET r == _click_turnstile_checkbox(StrategyBox(i, d), F)
                    IN [ret |-> IF r.raised THEN "false" ELSE "true",
                        ev |-> r.ev, strat |-> i]
              [] dec = "click" ->
                    LET r == ElementClick(d, IF i = 7 THEN "cb_label_cb" ELSE "cb_label_text",
                                          IF i = 7 THEN "ts.s7.click" ELSE "ts.s8.click", F)
                    IN [ret |-> IF r.raised THEN "false" ELSE "true",
                        ev |-> r.ev, strat |-> i]

solve_cloudflare_turnstile(d, F) ==
    IF _wait_for_state_change(F) THEN [ret |-> "false", ev |-> <<>>, strat |-> 0]
    ELSE TurnstileFrom(1, d, F)

(***************************************************************************)
(* Motion simulator: drags                                                 *)
(***************************************************************************)
\* _human_drag: smooth move to the start, pointer down, the drag moves
\* toward end_x (recorded as one "drag" event at the end point), pointer up.
\* Nothing guards the pointer-up: a statement that raises leaves the rest
\* of the sequence undone.  Coordinates in quarter pixels.
_human_drag(start_x, start_y, end_x, F) ==
    RunOps(<< [site |-> "hd.move_start", ev |-> Ev("move", start_x, start_y)],
              [site |-> "hd.down", ev |-> Ev("down", start_x, start_y)],
              [site |-> "hd.move", ev |-> Ev("drag", end_x, start_y)],
              [site |-> "hd.up", ev |-> Ev("up", end_x, start_y)] >>, F)

HumanDragSites == {"hd.move_start", "hd.down", "hd.move", "hd.up"}

\* HumanBehavior.drag: from the centre of start_box to (end_x, end_y), end_y
\* defaulting (0 = not given) to the start y
drag(start_box, end_x, end_y, F) ==
    LET sx == CentreX(start_box)
        sy == CentreY(start_box)
        ey == IF end_y = 0 THEN sy ELSE end_y
    IN RunOps(<< [site |-> "drag.move_start", ev |-> Ev("move", sx, sy)],
                 [site |-> "drag.down", ev |-> Ev("down", sx, sy)],
                 [site |-> "drag.move_end", ev |-> Ev("drag", end_x, ey)],
                 [site |-> "drag.up", ev |-> Ev("up", end_x, ey)] >>, F)

DragSites == {"drag.move_start", "drag.down", "drag.move_end", "drag.up"}

(***************************************************************************)
(* Challenge solvers                                                       *)
(* Every solver returns [ret, ev]: ret is "true", "false" or "raised".     *)
(***************************************************************************)
Jitters == {<<-3, -3>>, <<0, 0>>, <<3, 2>>}

\* the jitter drawn inside the step-by-step operations
StageJitters == {<<1, -1>>}

Result(r, ev) == [ret |-> r, ev |-> ev]

\* the result of a guarded body: True when it ran through, False when a
\* statement raised (except Exception: pass; return False)
Guarded(r) == Result(IF r.raised THEN "false" ELSE "true", r.ev)

CheckboxSites == {"cb.count", "cb.box", "mc.move", "mc.click", WaitSite}

\* solve_checkbox without a selector: the robot-checkbox selector, then any
\* checkbox; the first selector whose first match has a box is clicked
solve_checkbox(d, j, F) ==
    IF "cb.count" \in F THEN Result("false", <<>>)
    ELSE IF Present(d, SelRobotCheckbox) /\ "cb.box" \in F THEN Result("false", <<>>)
    ELSE IF Present(d, SelRobotCheckbox) /\ d[First(d, SelRobotCheckbox)] = "visible"
         THEN Guarded(ThenWait(
                  _human_move_and_click(BoxOf(First(d, SelRobotCheckbox)), j, F), F))
    ELSE IF ~Present(d, SelAnyCheckbox) THEN Result("false", <<>>)
    ELSE IF "cb.box" \in F THEN Result("false", <<>>)
    ELSE IF d[First(d, SelAnyCheckbox)] = "visible"
         THEN Guarded(ThenWait(
                  _human_move_and_click(BoxOf(First(d, SelAnyCheckbox)), j, F), F))
    ELSE Result("false", <<>>)

RecaptchaSites == {"rc.count", "rc.click", WaitSite}

\* solve_recaptcha_checkbox: the anchor inside the reCAPTCHA frame
solve_recaptcha_checkbox(d, F) ==
    IF "rc.count" \in F THEN Result("false", <<>>)
    ELSE IF ~(Present(d, SelRecaptcha) /\ d["recaptcha_anchor"] # "absent")
         THEN Result("false", <<>>)
    ELSE Guarded(ThenWait(ElementClick(d, "recaptcha_anchor", "rc.click", F), F))

PressHoldSites ==
    {"ph.count", "ph.box", "ph.move", "ph.down", "ph.sleep", "ph.up", WaitSite}

\* solve_press_and_hold: move to the button centre (plus jitter), pointer
\* down, sleep, pointer up
solve_press_and_hold(d, j, F) ==
    IF "ph.count" \in F THEN Result("false", <<>>)
    ELSE IF ~Present(d, SelPressHold) THEN Result("false", <<>>)
    ELSE IF "ph.box" \in F THEN Result("false", <<>>)
    ELSE IF d[First(d, SelPressHold)] # "visible" THEN Result("false", <<>>)
    ELSE LET box == BoxOf(First(d, SelPressHold))
             x == CentreX(box) + 4 * j[1]
             y == CentreY(box) + 4 * j[2]
         IN Guarded(ThenWait(RunOps(<< [site |-> "ph.move", ev |-> Ev("move", x, y)],
                                       [site |-> "ph.down", ev |-> Ev("down", x, y)],
                                       [site |-> "ph.sleep", ev |-> NoEv],
                                       [site |-> "ph.up", ev |-> Ev("up", x, y)] >>, F),
                             F))

SliderSites ==
    {"sl.track_count", "sl.track_box", "sl.handle_count", "sl.handle_box", WaitSite}
        \cup HumanDragSites

\* the right edge of the track, without the margin
SliderEndX_NoMargin(track_box) == 4 * (track_box.x + track_box.width)

\* end_x = track_box["x"] + track_box["width"] - 10, in quarter pixels
SliderEndX(track_box) == 4 * (track_box.x + track_box.width - 10)

\* solve_slider without the guard of its try block
solve_slider_Unguarded(d, F) ==
    IF F \cap {"sl.track_count", "sl.handle_count"} # {} THEN Result("raised", <<>>)
    ELSE IF Present(d, SelSliderTrack) /\ "sl.track_box" \in F THEN Result("raised", <<>>)
    ELSE IF Present(d, SelSliderHandle) /\ "sl.handle_box" \in F THEN Result("raised", <<>>)
    ELSE IF /\ Present(d, SelSliderTrack) /\ d[First(d, SelSliderTrack)] = "visible"
            /\ Present(d, SelSliderHandle) /\ d[First(d, SelSliderHandle)] = "visible"
         THEN LET track_box == BoxOf(First(d, SelSliderTrack))
                  handle_box == BoxOf(First(d, SelSliderHandle))
                  r == ThenWait(_human_drag(CentreX(handle_box), CentreY(handle_box),
                                            SliderEndX(track_box), F), F)
              IN Result(IF r.raised THEN "raised" ELSE "true", r.ev)
    ELSE Result("false", <<>>)

\* solve_slider: drag from the handle centre to track right edge - 10 px
solve_slider(d, F) ==
    IF F \cap {"sl.track_count", "sl.handle_count"} # {} THEN Result("false", <<>>)
    ELSE IF Present(d, SelSliderTrack) /\ "sl.track_box" \in F THEN Result("false", <<>>)
    ELSE IF Present(d, SelSliderHandle) /\ "sl.handle_box" \in F THEN Result("false", <<>>)
    ELSE IF /\ Present(d, SelSliderTrack) /\ d[First(d, SelSliderTrack)] = "visible"
            /\ Present(d, SelSliderHandle) /\ d[First(d, SelSliderHandle)] = "visible"
         THEN LET track_box == BoxOf(First(d, SelSliderTrack))
                  handle_box == BoxOf(First(d, SelSliderHandle))
              IN Guarded(ThenWait(_human_drag(CentreX(handle_box), CentreY(handle_box),
                                              SliderEndX(track_box), F), F))
    ELSE Result("false", <<>>)

PuzzleSites ==
    {"pz.text_count", "pz.handle_count", "pz.visible", "pz.eval", "pz.box",
     "pz.recheck", WaitSite} \cup HumanDragSites

\* the offsets tried from the left to the right
PuzzleOffsets_Ascending == <<45, 55, 65, 75, 85>>

\* offset_attempts, in percent of the track width
PuzzleOffsets == <<65, 55, 75, 45, 85>>

\* track_width
PuzzleTrackWidth == 200

\* drags k.. of _try_puzzle_drag_positions; the marker check after drag
\* number c reports the marker gone (c = 0: it never does)
RECURSIVE PuzzleDragsFrom(_, _, _, _)
PuzzleDragsFrom(k, handle_box, c, F) ==
    IF k > Len(PuzzleOffsets) THEN [raised |-> FALSE, ev |-> <<>>]
    ELSE LET start_x == CentreX(handle_box)
             end_x == start_x + (4 * PuzzleTrackWidth * PuzzleOffsets[k]) \div 100
             r == ThenWait(_human_drag(start_x, CentreY(handle_box), end_x, F), F)
         IN IF r.raised THEN r
            ELSE IF "pz.recheck" \in F THEN [raised |-> TRUE, ev |-> r.ev]
            ELSE IF k = c THEN r
            ELSE LET rest == PuzzleDragsFrom(k + 1, handle_box, c, F)
                 IN [raised |-> rest.raised, ev |-> r.ev \o rest.ev]

\* a failure reported when the loop ends with the marker still present
_try_puzzle_drag_positions_FailWhenUncleared(handle_box, c, F) ==
    LET r == PuzzleDragsFrom(1, handle_box, c, F)
    IN [raised |-> r.raised \/ c = 0, ev |-> r.ev]

\* _try_puzzle_drag_positions returns True after the loop in every case
_try_puzzle_drag_positions(handle_box, c, F) == PuzzleDragsFrom(1, handle_box, c, F)

\* solve_puzzle_slider
solve_puzzle_slider(d, c, F) ==
    IF "pz.text_count" \in F \/ ~Present(d, SelSlideText) THEN Result("false", <<>>)
    ELSE IF "pz.handle_count" \in F THEN Result("false", <<>>)
    ELSE IF Present(d, SelPuzzleHandle) /\ "pz.visible" \in F THEN Result("false", <<>>)
    ELSE IF Present(d, SelPuzzleHandle) /\ d[First(d, SelPuzzleHandle)] = "visible"
         THEN IF "pz.box" \in F THEN Result("false", <<>>)
              ELSE Guarded(_try_puzzle_drag_positions(
                               BoxOf(First(d, SelPuzzleHandle)), c, F))
    ELSE IF "pz.eval" \in F THEN Result("false", <<>>)
    ELSE IF d["puzzle_js_btn"] = "visible"
         THEN Guarded(_try_puzzle_drag_positions(BoxOf("puzzle_js_btn"), c, F))
    ELSE Result("false", <<>>)

HandleCloudflareSites ==
    {"hc.ts_count", "hc.ts_box", "hc.if_count", "hc.if_click", "mc.move", "mc.click"}
        \cup TurnstileSites

\* the tail of handle_cloudflare, after the widget solver returned False
HandleCloudflareTail(d, j, F) ==
    IF "hc.ts_count" \in F THEN [raised |-> TRUE, ev |-> <<>>, acted |-> FALSE]
    ELSE IF Present(d, SelCfTurnstileId) /\ "hc.ts_box" \in F
         THEN [raised |-> TRUE, ev |-> <<>>, acted |-> FALSE]
    ELSE IF Present(d, SelCfTurnstileId) /\ d[First(d, SelCfTurnstileId)] = "visible"
         THEN LET r == _human_move_and_click(BoxOf(First(d, SelCfTurnstileId)), j, F)
              IN [raised |-> r.raised, ev |-> r.ev, acted |-> TRUE]
    ELSE IF "hc.if_count" \in F THEN [raised |-> TRUE, ev |-> <<>>, acted |-> FALSE]
    ELSE IF Present(d, SelCfCheckbox)
         THEN LET r == ElementClick(d, First(d, SelCfCheckbox), "hc.if_click", F)
              IN [raised |-> r.raised, ev |-> r.ev, acted |-> TRUE]
    ELSE [raised |-> FALSE, ev |-> <<>>, acted |-> FALSE]

\* handle_cloudflare going on to its own selectors after the widget solver
\* has clicked
handle_cloudflare_NoEarlyReturn(d, j, F) ==
    LET t == solve_cloudflare_turnstile(d, F)
        r == HandleCloudflareTail(d, j, F)
    IN Result(IF t.ret = "true" \/ (r.acted /\ ~r.raised) THEN "true" ELSE "false",
              t.ev \o r.ev)

\* handle_cloudflare: the widget solver, then #cf-turnstile, then the iframe
handle_cloudflare(d, j, F) ==
    LET t == solve_cloudflare_turnstile(d, F)
    IN IF _wait_for_state_change(F) THEN Result("false", <<>>)
       ELSE IF t.ret = "true" THEN Result("true", t.ev)
       ELSE LET r == HandleCloudflareTail(d, j, F)
            IN Result(IF r.acted /\ ~r.raised THEN "true" ELSE "false", t.ev \o r.ev)

HumanVerifySites ==
    {"hv.cb_visible", "hv.cb_box", "hv.rb_visible", "hv.rb_box", "mc.move", "mc.click"}
        \cup TurnstileSites

\* the tail of solve_human_verify, after the widget solver returned False
HumanVerifyTail(d, j, F) ==
    IF "hv.cb_visible" \in F THEN [raised |-> TRUE, ev |-> <<>>, acted |-> FALSE]
    ELSE IF Present(d, SelHumanVerifyCheckbox)
            /\ d[First(d, SelHumanVerifyCheckbox)] = "visible"
         THEN IF "hv.cb_box" \in F THEN [raised |-> TRUE, ev |-> <<>>, acted |-> FALSE]
              ELSE LET r == _human_move_and_click(
                                BoxOf(First(d, SelHumanVerifyCheckbox)), j, F)
                   IN [raised |-> r.raised, ev |-> r.ev, acted |-> TRUE]
    ELSE IF "hv.rb_visible" \in F THEN [raised |-> TRUE, ev |-> <<>>, acted |-> FALSE]
    ELSE IF Present(d, SelRobotCheckbox) /\ d[First(d, SelRobotCheckbox)] = "visible"
         THEN IF "hv.rb_box" \in F THEN [raised |-> TRUE, ev |-> <<>>, acted |-> FALSE]
              ELSE LET r == _human_move_and_click(
                                BoxOf(First(d, SelRobotCheckbox)), j, F)
                   IN [raised |-> r.raised, ev |-> r.ev, acted |-> TRUE]
    ELSE [raised |-> FALSE, ev |-> <<>>, acted |-> FALSE]

\* solve_human_verify: the widget solver, then the captcha checkbox, then
\* the robot checkbox
solve_human_verify(d, j, F) ==
    LET t == solve_cloudflare_turnstile(d, F)
    IN IF t.ret = "true" THEN Result("true", t.ev)
       ELSE LET r == HumanVerifyTail(d, j, F)
            IN Result(IF r.acted /\ ~r.raised THEN "true" ELSE "false", t.ev \o r.ev)

\* the pointer is left pressed after these events
Pressed(ev) ==
    LET btn == {i \in 1..Len(ev) : ev[i].type \in {"down", "up"}}
    IN btn # {} /\ ev[CHOOSE i \in btn : \A j \in btn : j <= i].type = "down"

\* caller, max_attempts, attempts made, attempts in which the widget solver
\* reported a click, re-checks made, pointer events issued, whether the
\* entry check found a challenge page, and whether the last re-check
\* reported that the page is no longer a challenge page
NoFrame == [caller |-> "none", max |-> 0, attempt |-> 0, clicks |-> 0,
            checks |-> 0, acts |-> 0, entry |-> FALSE, cleared |-> FALSE]

Frame(caller, m) == [NoFrame EXCEPT !.caller = caller, !.max = m]

\* no argument given
NoArgs == <<>>

InitOver(T, K) ==
    /\ title \in T
    /\ dom \in DomsOver(K, MaxElems)
    /\ op = "none"
    /\ pc = "idle"
    /\ faults = {}
    /\ detection = NoFlags
    /\ ret = "none"
    /\ events = <<>>
    /\ calls = <<>>
    /\ cf = NoFrame
    /\ strategy = 0
    /\ solved_any = FALSE
    /\ args = NoArgs

(***************************************************************************)
(* classify: one call of detect_antibot on a page                          *)
(***************************************************************************)
Classify ==
    /\ pc = "idle"
    /\ \E F \in DetectFaultSets :
          /\ faults' = F
          /\ detection' = detect_antibot(title, dom, F)
    /\ op' = "detect_antibot"
    /\ pc' = "done"
    /\ ret' = "returned"
    /\ UNCHANGED <<args, title, dom, events, calls, cf, strategy, solved_any>>

InitClassify == InitOver(Titles, Kinds)

NextClassify == Classify

SpecClassify == InitClassify /\ [][NextClassify]_vars

(***************************************************************************)
(* Direct calls of the solvers and of the drag primitives                  *)
(***************************************************************************)
TurnstileFaultSets == FaultSets(TurnstileSites)
CheckboxFaultSets == FaultSets(CheckboxSites)
RecaptchaFaultSets == FaultSets(RecaptchaSites)
PressHoldFaultSets == FaultSets(PressHoldSites)
SliderFaultSets == FaultSets(SliderSites)
PuzzleFaultSets == FaultSets(PuzzleSites)
HandleCloudflareFaultSets == FaultSets(HandleCloudflareSites)
HumanVerifyFaultSets == FaultSets(HumanVerifySites)
HumanDragFaultSets == FaultSets(HumanDragSites)
DragFaultSets == FaultSets(DragSites)
IsCfFaultSets == FaultSets(IsCfSites)

\* a call that ran to its end: the result and the events are recorded
Finish(name, r, s, F) ==
    /\ op' = name
    /\ pc' = "done"
    /\ faults' = F
    /\ ret' = r.ret
    /\ events' = r.ev
    /\ strategy' = s
    /\ UNCHANGED <<args, title, dom, detection, calls, cf, solved_any>>

SolveTurnstile ==
    /\ pc = "idle"
    /\ \E F \in TurnstileFaultSets :
          LET r == solve_cloudflare_turnstile(dom, F)
          IN Finish("solve_cloudflare_turnstile", r, r.strat, F)

SolveCheckbox ==
    /\ pc = "idle"
    /\ \E F \in CheckboxFaultSets, j \in Jitters :
          Finish("solve_checkbox", solve_checkbox(dom, j, F), 0, F)

SolveRecaptchaCheckbox ==
    /\ pc = "idle"
    /\ \E F \in RecaptchaFaultSets :
          Finish("solve_recaptcha_checkbox", solve_recaptcha_checkbox(dom, F), 0, F)

SolvePressAndHold ==
    /\ pc = "idle"
    /\ \E F \in PressHoldFaultSets, j \in Jitters :
          Finish("solve_press_and_hold", solve_press_and_hold(dom, j, F), 0, F)

SolveSlider ==
    /\ pc = "idle"
    /\ \E F \in SliderFaultSets :
          Finish("solve_slider", solve_slider(dom, F), 0, F)

\* the widths, in pixels, of the slider track the page shows; the solver
\* never measures it
TrackWidths == {200, 320}

SolvePuzzleSlider ==
    /\ pc = "idle"
    /\ \E F \in PuzzleFaultSets, c \in 0..Len(PuzzleOffsets), tw \in TrackWidths :
          LET r == solve_puzzle_slider(dom, c, F)
          IN /\ op' = "solve_puzzle_slider"
             /\ pc' = "done"
             /\ faults' = F
             /\ ret' = r.ret
             /\ events' = r.ev
             /\ strategy' = 0
             /\ args' = [gone_at |-> c, track_width |-> tw]
    /\ UNCHANGED <<title, dom, detection, calls, cf, solved_any>>

HandleCloudflare ==
    /\ pc = "idle"
    /\ \E F \in HandleCloudflareFaultSets, j \in Jitters :
          Finish("handle_cloudflare", handle_cloudflare(dom, j, F), 0, F)

SolveHumanVerify ==
    /\ pc = "idle"
    /\ \E F \in HumanVerifyFaultSets, j \in Jitters :
          Finish("solve_human_verify", solve_human_verify(dom, j, F), 0, F)

\* the start points and end abscissas the drags are called with (quarter px)
DragStarts ==
    {BoxOf("slider_handle"), BoxOf("puzzle_btn"), BoxOf("puzzle_js_btn"),
     BoxOf("press_hold_btn")}
DragEnds == {400, 1160, 1600, 2000}

HumanDrag ==
    /\ pc = "idle"
    /\ \E F \in HumanDragFaultSets, b \in DragStarts, end_x \in DragEnds :
          LET r == _human_drag(CentreX(b), CentreY(b), end_x, F)
          IN Finish("_human_drag",
                    Result(IF r.raised THEN "raised" ELSE "returned", r.ev), 0, F)

Drag ==
    /\ pc = "idle"
    /\ \E F \in DragFaultSets, b \in DragStarts, end_x \in DragEnds, end_y \in {0, 900} :
          LET r == drag(b, end_x, end_y, F)
          IN Finish("drag",
                    Result(IF r.raised THEN "raised" ELSE "returned", r.ev), 0, F)

NextSolvers ==
    \/ SolveTurnstile
    \/ SolveCheckbox
    \/ SolveRecaptchaCheckbox
    \/ SolvePressAndHold
    \/ SolveSlider
    \/ SolvePuzzleSlider
    \/ HandleCloudflare
    \/ SolveHumanVerify

InitSolvers == InitOver({TitleJustAMoment}, Kinds)

SpecSolvers == InitSolvers /\ [][NextSolvers]_vars

NextDrag == HumanDrag \/ Drag

InitDrag == InitOver({TitleShop}, {})

SpecDrag == InitDrag /\ [][NextDrag]_vars

(***************************************************************************)
(* Managed-challenge full-solve routine, step by step                      *)
(* (solve_cloudflare_challenge; CloudflareHandler.solve_challenge has the  *)
(* same loop without the wait before each attempt)                         *)
(***************************************************************************)
\* max_attempts: int = 3
DefaultMaxAttempts == 3

\* the largest max_attempts a direct call passes
MaxAttemptsArg == 3

BoolStr(b) == IF b THEN "true" ELSE "false"

\* solved_any = <result> or solved_any, with the result overwriting
Accumulate_Overwrite(r, acc) == r

\* solved_any = <result> or solved_any
Accumulate(r, acc) == r \/ acc

\* where auto_solve goes after the full-solve stage, without the early return
AfterChallenge_NoShortCircuit(solved) == "stage2"

\* if solved_any: return solved_any
AfterChallenge(solved) == IF solved THEN "done" ELSE "stage2"

\* a loop bound that admits one attempt too many
AttemptAllowed_OffByOne(attempt, max_attempts) == attempt <= max_attempts

\* for attempt in range(max_attempts)
AttemptAllowed(attempt, max_attempts) == attempt < max_attempts

\* a re-check after every attempt, clicked or not
AfterAttempt_AlwaysCheck(clicked) == "cf_check"

\* if self.solve_cloudflare_turnstile(): ... re-check; else: next attempt
AfterAttempt(clicked) == IF clicked THEN "cf_check" ELSE "cf_attempt"

\* success reported after any click, whatever the re-check says
CheckVerdict_OpenLoop(challenge) == TRUE

\* if not self.is_cloudflare_challenge_page(): return True
CheckVerdict(challenge) == ~challenge

\* the page navigates away from the challenge on its own or after a click
PageChanges ==
    /\ pc \notin {"idle", "done"}
    /\ <<title, dom>> # <<TitleShop, EmptyDom>>
    /\ title' = TitleShop
    /\ dom' = EmptyDom
    /\ UNCHANGED <<args, op, pc, faults, detection, ret, events, calls, cf, strategy,
                   solved_any>>

\* solve_cloudflare_challenge(max_attempts = m) called directly
ChallengeStart ==
    /\ pc = "idle"
    /\ \E m \in 0..MaxAttemptsArg : cf' = Frame("top", m)
    /\ op' = "solve_cloudflare_challenge"
    /\ pc' = "cf_entry"
    /\ UNCHANGED <<args, title, dom, faults, detection, ret, events, calls, strategy,
                   solved_any>>

\* return r: to the direct caller, or into stage 1 of auto_solve
ChallengeReturn(r) ==
    IF cf.caller = "top"
    THEN /\ ret' = BoolStr(r)
         /\ pc' = "done"
         /\ UNCHANGED <<calls, solved_any>>
    ELSE /\ calls' = Append(calls, [name |-> "solve_cloudflare_challenge",
                                     result |-> BoolStr(r)])
         /\ solved_any' = Accumulate(r, solved_any)
         /\ pc' = AfterChallenge(solved_any')
         /\ ret' = IF pc' = "done" THEN BoolStr(solved_any') ELSE ret

\* if not self.is_cloudflare_challenge_page(): return False
ChallengeEntry ==
    /\ pc = "cf_entry"
    /\ \E challenge \in {is_cloudflare_challenge_page(title, dom, F) :
                             F \in IsCfFaultSets} :
          IF challenge
          THEN /\ pc' = "cf_attempt"
               /\ cf' = [cf EXCEPT !.entry = TRUE]
               /\ UNCHANGED <<ret, calls, solved_any>>
          ELSE /\ ChallengeReturn(FALSE)
               /\ UNCHANGED cf
    /\ UNCHANGED <<args, title, dom, op, faults, detection, events, strategy>>

\* one iteration of the loop: the widget solver; only when it reports a
\* click does the routine go on to re-check the page
ChallengeAttempt ==
    /\ pc = "cf_attempt"
    /\ AttemptAllowed(cf.attempt, cf.max)
    /\ \E r \in {solve_cloudflare_turnstile(dom, F) : F \in TurnstileFaultSets} :
             /\ events' = r.ev
             /\ strategy' = r.strat
             /\ cf' = [cf EXCEPT !.attempt = @ + 1,
                                 !.clicks = IF r.ret = "true" THEN @ + 1 ELSE @,
                                 !.acts = @ + Len(r.ev)]
             /\ pc' = AfterAttempt(r.ret = "true")
    /\ UNCHANGED <<args, title, dom, op, faults, detection, ret, calls, solved_any>>

\* if not self.is_cloudflare_challenge_page(): return True
ChallengeCheck ==
    /\ pc = "cf_check"
    /\ \E challenge \in {is_cloudflare_challenge_page(title, dom, F) :
                             F \in IsCfFaultSets} :
          /\ cf' = [cf EXCEPT !.checks = @ + 1, !.cleared = ~challenge]
          /\ IF CheckVerdict(challenge)
             THEN ChallengeReturn(TRUE)
             ELSE /\ pc' = "cf_attempt"
                  /\ UNCHANGED <<ret, calls, solved_any>>
    /\ UNCHANGED <<args, title, dom, op, faults, detection, events, strategy>>

\* the loop is exhausted: return False
ChallengeGiveUp ==
    /\ pc = "cf_attempt"
    /\ ~AttemptAllowed(cf.attempt, cf.max)
    /\ ChallengeReturn(FALSE)
    /\ UNCHANGED <<args, title, dom, op, faults, detection, events, cf, strategy>>

(***************************************************************************)
(* Auto-solve orchestrator, one action per stage                           *)
(***************************************************************************)
StageOrder ==
    << "solve_cloudflare_challenge", "handle_cloudflare",
       "solve_recaptcha_checkbox", "solve_human_verify", "solve_slider",
       "solve_press_and_hold", "solve_checkbox" >>

StageFlag ==
    << "has_cloudflare_turnstile", "has_cloudflare", "has_recaptcha",
       "has_human_verify", "has_slider", "has_press_hold", "has_checkbox" >>

StagePc(k) ==
    CASE k = 1 -> "stage1" [] k = 2 -> "stage2" [] k = 3 -> "stage3"
      [] k = 4 -> "stage4" [] k = 5 -> "stage5" [] k = 6 -> "stage6"
      [] k = 7 -> "stage7" [] OTHER -> "return"

\* detection = self.detect_antibot(); solved_any = False
AutoStart ==
    /\ pc = "idle"
    /\ \E det \in {detect_antibot(title, dom, F) : F \in DetectFaultSets} :
          detection' = det
    /\ op' = "auto_solve"
    /\ pc' = "stage1"
    /\ solved_any' = FALSE
    /\ UNCHANGED <<args, title, dom, faults, ret, events, calls, cf, strategy>>

\* if detection["has_cloudflare_turnstile"]: solve_cloudflare_challenge()
Stage1 ==
    /\ pc = "stage1"
    /\ IF detection[StageFlag[1]]
       THEN /\ cf' = Frame("auto_solve", DefaultMaxAttempts)
            /\ pc' = "cf_entry"
       ELSE /\ pc' = "stage2"
            /\ UNCHANGED cf
    /\ UNCHANGED <<args, title, dom, op, faults, detection, ret, events, calls,
                   strategy, solved_any>>

\* a later stage: skipped when its flag is clear, else the solver runs and
\* its result is or-ed into solved_any; a solver that raised would end
\* auto_solve with the exception
StageStep(k, r) ==
    /\ events' = r.ev
    /\ calls' = Append(calls, [name |-> StageOrder[k], result |-> r.ret])
    /\ IF r.ret = "raised"
       THEN /\ ret' = "raised"
            /\ pc' = "done"
            /\ UNCHANGED solved_any
       ELSE /\ solved_any' = Accumulate(r.ret = "true", solved_any)
            /\ pc' = StagePc(k + 1)
            /\ UNCHANGED ret

StageSkip(k) ==
    /\ pc' = StagePc(k + 1)
    /\ UNCHANGED <<ret, events, calls, solved_any>>

Stage2 ==
    /\ pc = "stage2"
    /\ IF detection[StageFlag[2]]
       THEN \E r \in {handle_cloudflare(dom, j, F) :
                            F \in HandleCloudflareFaultSets, j \in StageJitters} :
                StageStep(2, r)
       ELSE StageSkip(2)
    /\ UNCHANGED <<args, title, dom, op, faults, detection, cf, strategy>>

Stage3 ==
    /\ pc = "stage3"
    /\ IF detection[StageFlag[3]]
       THEN \E r \in {solve_recaptcha_checkbox(dom, F) : F \in RecaptchaFaultSets} :
                StageStep(3, r)
       ELSE StageSkip(3)
    /\ UNCHANGED <<args, title, dom, op, faults, detection, cf, strategy>>

Stage4 ==
    /\ pc = "stage4"
    /\ IF detection[StageFlag[4]]
       THEN \E r \in {solve_human_verify(dom, j, F) :
                            F \in HumanVerifyFaultSets, j \in StageJitters} :
                StageStep(4, r)
       ELSE StageSkip(4)
    /\ UNCHANGED <<args, title, dom, op, faults, detection, cf, strategy>>

Stage5 ==
    /\ pc = "stage5"
    /\ IF detection[StageFlag[5]]
       THEN \E r \in {solve_slider(dom, F) : F \in SliderFaultSets} :
                StageStep(5, r)
       ELSE StageSkip(5)
    /\ UNCHANGED <<args, title, dom, op, faults, detection, cf, strategy>>

\* stage 6 deciding from a fresh look at the page
Stage6_Redetect ==
    /\ pc = "stage6"
    /\ IF detect_antibot(title, dom, {})[StageFlag[6]]
       THEN \E r \in {solve_press_and_hold(dom, j, F) :
                            F \in PressHoldFaultSets, j \in StageJitters} :
                StageStep(6, r)
       ELSE StageSkip(6)
    /\ UNCHANGED <<args, title, dom, op, faults, detection, cf, strategy>>

Stage6 ==
    /\ pc = "stage6"
    /\ IF detection[StageFlag[6]]
       THEN \E r \in {solve_press_and_hold(dom, j, F) :
                            F \in PressHoldFaultSets, j \in StageJitters} :
                StageStep(6, r)
       ELSE StageSkip(6)
    /\ UNCHANGED <<args, title, dom, op, faults, detection, cf, strategy>>

Stage7 ==
    /\ pc = "stage7"
    /\ IF detection[StageFlag[7]]
       THEN \E r \in {solve_checkbox(dom, j, F) :
                            F \in CheckboxFaultSets, j \in StageJitters} :
                StageStep(7, r)
       ELSE StageSkip(7)
    /\ UNCHANGED <<args, title, dom, op, faults, detection, cf, strategy>>

\* return solved_any
AutoReturn ==
    /\ pc = "return"
    /\ ret' = BoolStr(solved_any)
    /\ pc' = "done"
    /\ UNCHANGED <<args, title, dom, op, faults, detection, events, calls, cf,
                   strategy, solved_any>>

(***************************************************************************)
(* CloudflareHandler: the second implementation of the managed challenge   *)
(***************************************************************************)
\* CloudflareHandler.is_challenge_page
is_challenge_page(t, d, F) ==
    IF "iscf.title" \in F THEN FALSE
    ELSE IF ContainsAny(Lower(t), CfTitleIndicators) THEN TRUE
    ELSE IF "iscf.ray" \in F THEN FALSE
    ELSE IF "iscf.script" \in F THEN FALSE
    ELSE IF "iscf.text" \in F THEN FALSE
    ELSE IF "iscf.iframe" \in F THEN FALSE
    ELSE Present(d, SelRayId) \/ Present(d, SelChallengeScript)
            \/ Present(d, SelVerifyText) \/ Present(d, SelCfHostIframe)

\* a click on the centre of the box
cf_click_turnstile_checkbox_Centre(box, F) ==
    RunOps(<< [site |-> "tc.move", ev |-> Ev("move", CentreX(box), CentreY(box))],
              [site |-> "tc.click", ev |-> Ev("click", CentreX(box), CentreY(box))] >>,
           F)

\* CloudflareHandler._click_turnstile_checkbox: human.click_at on the
\* target, that is mouse_move, a pause, page.mouse.click
cf_click_turnstile_checkbox(box, F) ==
    RunOps(<< [site |-> "tc.move",
               ev |-> Ev("move", TurnstileTargetX(box), TurnstileTargetY(box))],
              [site |-> "tc.pause", ev |-> NoEv],
              [site |-> "tc.click",
               ev |-> Ev("click", TurnstileTargetX(box), TurnstileTargetY(box))] >>, F)

\* strategies i.. of CloudflareHandler.solve_turnstile
RECURSIVE CfTurnstileFrom(_, _, _)
CfTurnstileFrom(i, d, F) ==
    IF i > 8 THEN [ret |-> "false", ev |-> <<>>, strat |-> 0]
    ELSE LET dec == StrategyDecision(i, d, F)
         IN CASE dec = "next" -> CfTurnstileFrom(i + 1, d, F)
              [] dec = "raise" -> [ret |-> "false", ev |-> <<>>, strat |-> i]
              [] dec = "box" ->
                    LET r == cf_click_turnstile_checkbox(StrategyBox(i, d), F)
                    IN [ret |-> IF r.raised THEN "false" ELSE "true",
                        ev |-> r.ev, strat |-> i]
              [] dec = "click" ->
                    LET r == ElementClick(d, IF i = 7 THEN "cb_label_cb" ELSE "cb_label_text",
                                          IF i = 7 THEN "ts.s7.click" ELSE "ts.s8.click", F)
                    IN [ret |-> IF r.raised THEN "false" ELSE "true",
                        ev |-> r.ev, strat |-> i]

\* CloudflareHandler.solve_turnstile: no wait before the strategies
solve_turnstile(d, F) == CfTurnstileFrom(1, d, F)

CfTurnstileFaultSets == FaultSets(TurnstileSites \ {WaitSite})

CfIsChallengePage ==
    /\ pc = "idle"
    /\ \E F \in IsCfFaultSets :
          Finish("cf.is_challenge_page",
                 [ret |-> BoolStr(is_challenge_page(title, dom, F)), ev |-> <<>>],
                 0, F)

CfSolveTurnstile ==
    /\ pc = "idle"
    /\ \E F \in CfTurnstileFaultSets :
          LET r == solve_turnstile(dom, F)
          IN Finish("cf.solve_turnstile", r, r.strat, F)

\* CloudflareHandler.solve_challenge(max_attempts = m)
CfChallengeStart ==
    /\ pc = "idle"
    /\ \E m \in 0..MaxAttemptsArg : cf' = Frame("top", m)
    /\ op' = "cf.solve_challenge"
    /\ pc' = "cf_entry"
    /\ UNCHANGED <<args, title, dom, faults, detection, ret, events, calls, strategy,
                   solved_any>>

\* if not self.is_challenge_page(): return False
CfChallengeEntry ==
    /\ pc = "cf_entry"
    /\ \E challenge \in {is_challenge_page(title, dom, F) : F \in IsCfFaultSets} :
          IF challenge
          THEN /\ pc' = "cf_attempt"
               /\ cf' = [cf EXCEPT !.entry = TRUE]
               /\ UNCHANGED <<ret, calls, solved_any>>
          ELSE /\ ChallengeReturn(FALSE)
               /\ UNCHANGED cf
    /\ UNCHANGED <<args, title, dom, op, faults, detection, events, strategy>>

\* one iteration of the loop: if self.solve_turnstile(): wait, re-check
CfChallengeAttempt ==
    /\ pc = "cf_attempt"
    /\ AttemptAllowed(cf.attempt, cf.max)
    /\ \E r \in {solve_turnstile(dom, F) : F \in CfTurnstileFaultSets} :
             /\ events' = r.ev
             /\ strategy' = r.strat
             /\ cf' = [cf EXCEPT !.attempt = @ + 1,
                                 !.clicks = IF r.ret = "true" THEN @ + 1 ELSE @,
                                 !.acts = @ + Len(r.ev)]
             /\ pc' = AfterAttempt(r.ret = "true")
    /\ UNCHANGED <<args, title, dom, op, faults, detection, ret, calls, solved_any>>

\* if not self.is_challenge_page(): return True
CfChallengeCheck ==
    /\ pc = "cf_check"
    /\ \E challenge \in {is_challenge_page(title, dom, F) : F \in IsCfFaultSets} :
          /\ cf' = [cf EXCEPT !.checks = @ + 1, !.cleared = ~challenge]
          /\ IF CheckVerdict(challenge)
             THEN ChallengeReturn(TRUE)
             ELSE /\ pc' = "cf_attempt"
                  /\ UNCHANGED <<ret, calls, solved_any>>
    /\ UNCHANGED <<args, title, dom, op, faults, detection, events, strategy>>

\* the loop is exhausted: return False
CfChallengeGiveUp ==
    /\ pc = "cf_attempt"
    /\ ~AttemptAllowed(cf.attempt, cf.max)
    /\ ChallengeReturn(FALSE)
    /\ UNCHANGED <<args, title, dom, op, faults, detection, events, cf, strategy>>

NextCfHandler ==
    \/ CfIsChallengePage
    \/ CfSolveTurnstile
    \/ CfChallengeStart
    \/ CfChallengeEntry
    \/ CfChallengeAttempt
    \/ CfChallengeCheck
    \/ CfChallengeGiveUp
    \/ PageChanges

NextChallenge ==
    \/ ChallengeStart
    \/ ChallengeEntry
    \/ ChallengeAttempt
    \/ ChallengeCheck
    \/ ChallengeGiveUp
    \/ PageChanges

\* the kinds the challenge-page check and the widget solver look at
ChallengeKinds ==
    { "ifr_cf_turnstile", "ifr_cf_host", "ifr_cf_widget", "div_cf_turnstile",
      "div_turnstile_cls", "div_grid", "code_ray_id", "script_cp",
      "text_verify_human", "input_cf_response", "cb_label_cb", "cb_label_text" }

InitChallenge == InitOver({TitleShop, TitleJustAMoment}, ChallengeKinds)

SpecChallenge == InitChallenge /\ [][NextChallenge]_vars

SpecCfHandler == InitChallenge /\ [][NextCfHandler]_vars

NextAuto ==
    \/ AutoStart
    \/ Stage1
    \/ ChallengeEntry
    \/ ChallengeAttempt
    \/ ChallengeCheck
    \/ ChallengeGiveUp
    \/ Stage2
    \/ Stage3
    \/ Stage4
    \/ Stage5
    \/ Stage6
    \/ Stage7
    \/ AutoReturn
    \/ PageChanges

\* pages for the orchestrator: for every stage a kind that sets its flag and
\* the kinds its solver acts on
AutoKinds ==
    { "ifr_cf_host", "div_cf_turnstile", "ifr_recaptcha", "recaptcha_anchor",
      "div_turnstile_cls", "cb_captcha", "slider_track", "slider_handle",
      "press_hold_btn", "cb_robot", "text_slide" }

AutoTitles == {TitleShop, TitleJustAMoment, <<"Security", "check">>}

InitAuto == InitOver(AutoTitles, AutoKinds)

SpecAuto == InitAuto /\ [][NextAuto]_vars

\* while auto_solve runs, the page starts to show a press-and-hold button
MarkerAppears ==
    /\ op = "auto_solve"
    /\ pc \notin {"idle", "done"}
    /\ dom["press_hold_btn"] = "absent"
    /\ dom' = [dom EXCEPT !["press_hold_btn"] = "visible"]
    /\ UNCHANGED <<args, title, op, pc, faults, detection, ret, events, calls, cf,
                   strategy, solved_any>>

NextAutoDrift ==
    \/ AutoStart
    \/ Stage1
    \/ ChallengeEntry
    \/ ChallengeAttempt
    \/ ChallengeCheck
    \/ ChallengeGiveUp
    \/ Stage2
    \/ Stage3
    \/ Stage4
    \/ Stage5
    \/ Stage6
    \/ Stage7
    \/ AutoReturn
    \/ PageChanges
    \/ MarkerAppears

SpecAutoDrift == InitAuto /\ [][NextAutoDrift]_vars

\* every solver on every page; the step-by-step operations on the pages
\* of the orchestrator
OnAutoPage == title \in AutoTitles /\ Attached(dom) \subseteq AutoKinds

NextRobust ==
    \/ NextSolvers
    \/ (OnAutoPage /\ NextAuto)
    \/ (OnAutoPage /\ ChallengeStart)

InitRobust == InitOver(AutoTitles, Kinds)

SpecRobust == InitRobust /\ [][NextRobust]_vars

(***************************************************************************)
(* Properties of the classifier                                            *)
(***************************************************************************)
\* the element kinds and title phrases the classifier reacts to
MarkerKinds ==
    { "ifr_recaptcha", "ifr_hcaptcha", "ifr_cf_turnstile", "ifr_cf_host",
      "ifr_cf_widget", "div_cf_turnstile", "div_turnstile_cls", "code_ray_id",
      "script_cp", "text_verify_human", "slider_track", "press_hold_btn",
      "cb_robot" }

MarkerPhrases ==
    { <<"just", "a", "moment">>, <<"attention", "required">>,
      <<"one", "more", "step">>, <<"access", "denied">>, <<"blocked">>,
      <<"forbidden">>, <<"verify">>, <<"security", "check">>, <<"challenge">> }

Classified == op = "detect_antibot" /\ pc = "done"

\* the DOM queries of the classifier and the flags each one feeds
DomQuerySites == DetectSites \ {"detect.title", "iscf.title"}

FlagsOfSite(s) ==
    CASE s = "detect.recaptcha" -> {"has_recaptcha"}
      [] s = "detect.hcaptcha" -> {"has_hcaptcha"}
      [] s = "detect.cf_checkbox" -> {"has_cloudflare"}
      [] s = "detect.cf_turnstile" -> {"has_cloudflare"}
      [] s \in {"detect.cf_iframe", "detect.cf_widget"} \cup IsCfSites ->
            {"has_cloudflare", "has_cloudflare_turnstile"}
      [] s = "detect.slider" -> {"has_slider"}
      [] s = "detect.press_hold" -> {"has_press_hold"}
      [] s = "detect.checkbox" -> {"has_checkbox"}
      [] s \in {"detect.hv_class", "detect.hv_text"} -> {"has_human_verify"}
      [] OTHER -> {}

\* C7 (as claimed): when DOM queries of the classifier fail, every flag that
\* is not fed by a failing query has the value it has without the failure.
C7_ChecksIndependent ==
    (Classified /\ faults \subseteq DomQuerySites) =>
        \A f \in Flags \ UNION {FlagsOfSite(s) : s \in faults} :
            detection[f] = detect_antibot(title, dom, {})[f]

ChallengeIframeOnly(d) ==
    /\ Present(d, SelCfHostIframe)
    /\ Attached(d) \cap MarkerKinds \subseteq SelCfHostIframe

C8_Case ==
    /\ Classified
    /\ faults = {}
    /\ title = TitleJustAMoment
    /\ ChallengeIframeOnly(dom)

\* C8 (as claimed): on a "Just a moment..." page with a challenge-host iframe
\* and no other marker, the two managed-challenge flags are true and every
\* other flag is false.
C8_OnlyManagedFlags ==
    C8_Case =>
        detection = [f \in Flags |->
                        f \in {"has_cloudflare", "has_cloudflare_turnstile"}]

\* C8 (amended): on such a page the two managed-challenge flags and
\* has_human_verify (set from the title) are true and every other flag is
\* false.
C8_ManagedAndHumanVerify ==
    C8_Case =>
        detection = [f \in Flags |->
                        f \in {"has_cloudflare", "has_cloudflare_turnstile",
                                "has_human_verify"}]

C8_Witness == C8_Case /\ detection["has_cloudflare_turnstile"]

NoMarker(t, d) ==
    /\ Attached(d) \cap MarkerKinds = {}
    /\ ~ContainsAny(Lower(t), MarkerPhrases)

\* C9: classifying a page without any marker yields all nine flags false.
C9_NoMarkerAllFalse ==
    (Classified /\ NoMarker(title, dom)) => detection = NoFlags

C9_Witness ==
    /\ Classified
    /\ NoMarker(title, dom)
    /\ faults = {}
    /\ dom["cb_plain"] = "visible"
    /\ detection = NoFlags

(***************************************************************************)
(* Properties of the orchestrator                                          *)
(***************************************************************************)
Names(cs) == [i \in 1..Len(cs) |-> cs[i].name]

StageOf(name) == CHOOSE k \in 1..Len(StageOrder) : StageOrder[k] = name

\* the stages k.. whose flag is set in the detection record, in stage order
RECURSIVE FlaggedFrom(_, _)
FlaggedFrom(k, det) ==
    IF k > Len(StageOrder) THEN <<>>
    ELSE (IF det[StageFlag[k]] THEN <<StageOrder[k]>> ELSE <<>>)
             \o FlaggedFrom(k + 1, det)

IsPrefix(a, b) == Len(a) <= Len(b) /\ SubSeq(b, 1, Len(a)) = a

ChallengeStageSucceeded ==
    /\ Len(calls) >= 1
    /\ calls[1].name = "solve_cloudflare_challenge"
    /\ calls[1].result = "true"

\* C1: auto_solve runs its stages in the fixed order; a successful
\* managed-challenge stage is the last stage run, and when it fails (or is
\* not due) every later stage whose flag is set runs.
C1_StageOrder ==
    op = "auto_solve" =>
        /\ IsPrefix(Names(calls), FlaggedFrom(1, detection))
        /\ ChallengeStageSucceeded => (Len(calls) = 1 /\ pc = "done")
        /\ (pc = "done" /\ ~ChallengeStageSucceeded) =>
               Names(calls) = FlaggedFrom(1, detection)

C1_Witness ==
    /\ op = "auto_solve"
    /\ pc = "done"
    /\ Len(calls) >= 3
    /\ calls[1].name = "solve_cloudflare_challenge"
    /\ calls[1].result = "false"

C1_ShortCircuitReached ==
    op = "auto_solve" /\ pc = "done" /\ ChallengeStageSucceeded
        /\ Len(FlaggedFrom(1, detection)) >= 3

\* C2: a stage is attempted only if its flag is set; auto_solve returns true
\* exactly when an attempted stage returned true; with no stage flag set it
\* calls no solver and returns false.
C2_FlagsAndResult ==
    op = "auto_solve" =>
        /\ \A i \in 1..Len(calls) : detection[StageFlag[StageOf(calls[i].name)]]
        /\ pc = "done" =>
              (ret = "true" <=> \E i \in 1..Len(calls) : calls[i].result = "true")
        /\ (pc = "done" /\ \A k \in 1..Len(StageFlag) : ~detection[StageFlag[k]]) =>
              (ret = "false" /\ calls = <<>> /\ events = <<>>)

C2_Witness ==
    /\ op = "auto_solve"
    /\ pc = "done"
    /\ ret = "true"
    /\ Len(calls) >= 3
    /\ calls[2].result = "true"
    /\ calls[Len(calls)].result = "false"

(***************************************************************************)
(* Properties of the managed-challenge full-solve routine                  *)
(***************************************************************************)
InChallenge == op = "solve_cloudflare_challenge"

\* C3 (as claimed): at most max_attempts attempts, and a re-check of the
\* challenge signals after every attempt.
C3_RecheckAfterEveryAttempt ==
    InChallenge =>
        /\ cf.attempt <= cf.max
        /\ pc \in {"cf_attempt", "done"} => cf.checks = cf.attempt

\* C3 (amended): at most max_attempts attempts; the challenge signals are
\* re-checked after exactly the attempts in which the widget solver reported
\* a click; once a re-check reports no challenge the routine has returned
\* true and makes no further attempt.
C3_RecheckAfterEveryClick ==
    InChallenge =>
        /\ cf.attempt <= cf.max
        /\ cf.clicks <= cf.attempt
        /\ pc \in {"cf_attempt", "done"} => cf.checks = cf.clicks
        /\ pc = "cf_check" => cf.checks + 1 = cf.clicks
        /\ cf.cleared => (pc = "done" /\ ret = "true")

C3_Witness ==
    /\ InChallenge
    /\ pc = "done"
    /\ cf.attempt = 3
    /\ cf.clicks = 1
    /\ cf.checks = 1
    /\ ret = "false"

\* C4: the routine returns true only after a widget click of this call
\* followed by a challenge-page check that reports no challenge; it returns
\* false without any pointer event when the entry check reports no
\* challenge, and false when all attempts are used up.
C4_ClosedLoop ==
    (InChallenge /\ pc = "done") =>
        /\ ret \in {"true", "false"}
        /\ ret = "true" => (cf.clicks >= 1 /\ cf.checks >= 1 /\ cf.cleared)
        /\ ~cf.entry => (ret = "false" /\ cf.acts = 0 /\ cf.attempt = 0)
        /\ (cf.entry /\ ~cf.cleared) => (ret = "false" /\ cf.attempt = cf.max)

C4_Witness ==
    /\ InChallenge
    /\ pc = "done"
    /\ ret = "true"
    /\ cf.attempt = 2
    /\ cf.clicks = 2
    /\ cf.cleared

(***************************************************************************)
(* Properties of the drags and of the solvers                              *)
(***************************************************************************)
\* C5 (as claimed): when a drag returns or raises, the pointer is not left
\* pressed.
C5_PointerUpAfterDown ==
    (op \in {"_human_drag", "drag"} /\ pc = "done") => ~Pressed(events)

SolverOps ==
    { "solve_checkbox", "solve_recaptcha_checkbox", "solve_press_and_hold",
      "solve_slider", "solve_puzzle_slider", "handle_cloudflare",
      "solve_cloudflare_turnstile", "solve_human_verify" }

\* C6: no solver and neither auto_solve nor the full-solve routine raises,
\* whatever page operation fails: each ends with a boolean; a solver returns
\* true only when its last pointer action (a click or a pointer-up) was
\* issued, so one that cannot complete its action returns false.
C6_NeverRaises ==
    /\ op \in SolverOps \cup {"auto_solve", "solve_cloudflare_challenge"} =>
          /\ ret # "raised"
          /\ \A i \in 1..Len(calls) : calls[i].result \in {"true", "false"}
          /\ pc = "done" => ret \in {"true", "false"}
    /\ (op \in SolverOps /\ pc = "done" /\ ret = "true") =>
          /\ events # <<>>
          /\ events[Len(events)].type \in {"click", "up"}

C6_Witness ==
    /\ op = "solve_press_and_hold"
    /\ pc = "done"
    /\ faults = {"ph.up"}
    /\ Pressed(events)
    /\ ret = "false"

(***************************************************************************)
(* Properties of the managed-challenge widget solver                       *)
(***************************************************************************)
\* the target of strategy i is present and has a bounding box
Eligible(i, d) ==
    CASE i = 1 -> Present(d, SelCfTurnstileIframe)
                    /\ d[First(d, SelCfTurnstileIframe)] = "visible"
      [] i = 2 -> Present(d, SelCfWidgetIframe)
                    /\ d[First(d, SelCfWidgetIframe)] = "visible"
      [] i = 3 -> Present(d, SelCfHostIframe)
                    /\ d[First(d, SelCfHostIframe)] = "visible"
      [] i = 4 -> ProbeFound(d)
      [] i = 5 -> d["input_cf_response"] = "visible"
      [] i = 6 -> d["text_verify_human"] = "visible"
      [] i = 7 -> d["cb_label_cb"] = "visible"
      [] i = 8 -> d["cb_label_text"] = "visible"

FirstEligible(d) ==
    IF \E i \in 1..8 : Eligible(i, d)
    THEN CHOOSE i \in 1..8 :
            Eligible(i, d) /\ \A j \in 1..(i - 1) : ~Eligible(j, d)
    ELSE 0

\* C10 (as claimed): without a failing page operation, the widget solver
\* acts on the first strategy whose target is present and has a bounding
\* box; a strategy whose element has no box is skipped and the next is tried.
C10_FirstEligibleStrategy ==
    (op = "solve_cloudflare_turnstile" /\ pc = "done" /\ faults = {}) =>
        /\ ret = BoolStr(FirstEligible(dom) # 0)
        /\ ret = "true" => strategy = FirstEligible(dom)

\* the page operations strategy i evaluates before it acts
StrategySites(i) ==
    CASE i = 1 -> {"ts.s1.count", "ts.s1.box"}
      [] i = 2 -> {"ts.s2.count", "ts.s2.box"}
      [] i = 3 -> {"ts.s3.count", "ts.s3.box"}
      [] i = 4 -> {"ts.s4.eval"}
      [] i = 5 -> {"ts.s5.count", "ts.s5.eval"}
      [] i = 6 -> {"ts.s6.count", "ts.s6.box"}
      [] i = 7 -> {"ts.s7.count"}
      [] i = 8 -> {"ts.s8.count"}

EvaluationSites == UNION {StrategySites(i) : i \in 1..8}

\* the strategies that locate their target although those in F throw
Locating(d, F) == {i \in 1..8 : Eligible(i, d) /\ StrategySites(i) \cap F = {}}

\* C11 (as claimed): in the widget solver's chain a strategy whose
\* evaluation throws counts as not found and the later strategies are still
\* evaluated: the solver clicks exactly when some strategy that does not
\* throw has a present and visible target, and then acts on the first such.
C11_ThrowingStrategySkipped ==
    (/\ op = "solve_cloudflare_turnstile"
     /\ pc = "done"
     /\ faults # {}
     /\ faults \subseteq EvaluationSites
     /\ "hidden" \notin {dom["cb_label_cb"], dom["cb_label_text"]}) =>
        /\ ret = BoolStr(Locating(dom, faults) # {})
        /\ ret = "true" => \A i \in Locating(dom, faults) : strategy <= i

(***************************************************************************)
(* Consent chain: CookieHandler.accept_cookies                             *)
(***************************************************************************)
Txt(tag, phrase) ==
    [by |-> "text", tag |-> tag, phrase |-> phrase, vis |-> FALSE,
     scope |-> "", attr |-> ""]

Attr(a) ==
    [by |-> "attr", tag |-> "", phrase |-> <<>>, vis |-> FALSE,
     scope |-> "", attr |-> a]

\* the accept selectors, in the order of the list
COOKIE_ACCEPT_SELECTORS ==
    << Txt("button", <<"Confirm", "My", "Choices">>),
       [Txt("button", <<"Accept", "All">>) EXCEPT !.vis = TRUE],
       Txt("button", <<"Reject", "All">>),
       Attr("data-testid=accept-cookies"),
       Attr("#onetrust-accept-btn-handler"),
       Attr("button[id*=onetrust-accept]"),
       Txt("button", <<"Accept", "All">>),
       Txt("button", <<"Accept", "all">>),
       Txt("button", <<"Accept", "All", "Cookies">>),
       Txt("button", <<"Accept", "all", "cookies">>),
       Txt("button", <<"Accepter", "tout">>),
       Txt("button", <<"Tout", "accepter">>),
       Txt("button", <<"Akzeptieren">>),
       Txt("button", <<"Alle", "akzeptieren">>),
       Txt("button", <<"Aceptar", "todo">>),
       Txt("button", <<"Accetta", "tutto">>),
       Txt("button", <<"I", "Accept">>),
       Txt("button", <<"I", "Agree">>),
       Txt("button", <<"Agree">>),
       Attr("#CybotCookiebotDialogBodyLevelButtonLevelOptinAllowAll"),
       Attr("#CybotCookiebotDialogBodyButtonAccept"),
       Attr("a#CybotCookiebotDialogBodyLevelButtonLevelOptinAllowAll"),
       Attr(".trustarc-agree-btn"),
       Attr("#truste-consent-button"),
       Attr(".call[data-testid=uc-accept-all-button]"),
       Attr(".qc-cmp2-summary-buttons button[mode=primary]"),
       Attr("button.css-47sehv"),
       Attr("#didomi-notice-agree-button"),
       Attr(".didomi-continue-without-agreeing"),
       Attr(".cookielaw-accept"),
       Attr("#cookiescript_accept"),
       [Txt("button", <<"Accept">>) EXCEPT !.scope = "cookie"],
       [Txt("button", <<"Accept">>) EXCEPT !.scope = "consent"],
       Txt("a", <<"Accept", "All">>),
       Txt("a", <<"Accept", "all", "cookies">>) >>

\* what the selectors can see of each element of a banner: its tag, its
\* text, the attribute selectors it satisfies, the class words of its
\* ancestors
CookieElement(k) ==
    CASE k = "ck_manage" ->
            [tag |-> "button", text |-> <<"Manage", "preferences">>,
             attrs |-> {}, scope |-> {"cookie"}]
      [] k = "ck_accept_manage" ->
            [tag |-> "button",
             text |-> <<"Accept", "all", "or", "manage", "preferences">>,
             attrs |-> {}, scope |-> {"cookie"}]
      [] k = "ck_accept_all" ->
            [tag |-> "button", text |-> <<"Accept", "All">>,
             attrs |-> {}, scope |-> {}]
      [] k = "ck_onetrust" ->
            [tag |-> "button", text |-> <<"OK">>,
             attrs |-> {"#onetrust-accept-btn-handler",
                        "button[id*=onetrust-accept]"},
             scope |-> {}]
      [] k = "ck_allow_settings" ->
            [tag |-> "button", text |-> <<"Allow", "all", "in", "settings">>,
             attrs |-> {}, scope |-> {}]
      [] k = "ck_allow_all" ->
            [tag |-> "button", text |-> <<"Allow", "all">>,
             attrs |-> {}, scope |-> {}]
      [] k = "ck_link_accept" ->
            [tag |-> "a", text |-> <<"Accept", "All">>,
             attrs |-> {}, scope |-> {}]
      [] k = "ck_reject_all" ->
            [tag |-> "button", text |-> <<"Reject", "All">>,
             attrs |-> {}, scope |-> {}]

\* :has-text() matches case-insensitively
HasText(k, phrase) == Contains(Lower(CookieElement(k).text), Lower(phrase))

SelectorMatches(sel, k) ==
    IF sel.by = "attr" THEN sel.attr \in CookieElement(k).attrs
    ELSE /\ CookieElement(k).tag = sel.tag
         /\ HasText(k, sel.phrase)
         /\ sel.scope = "" \/ sel.scope \in CookieElement(k).scope

\* the elements page.locator(COOKIE_ACCEPT_SELECTORS[i]) resolves to
CookieLocator(i, d) ==
    LET sel == COOKIE_ACCEPT_SELECTORS[i]
    IN {k \in CookieKinds :
          /\ d[k] # "absent"
          /\ SelectorMatches(sel, k)
          /\ sel.vis => d[k] = "visible"}

\* locator.first
FirstOf(m) == CHOOSE k \in m : \A j \in m : Pos(k) <= Pos(j)

\* a DOM click on element k
ClickOn(k) == Ev("click", CentreX(BoxOf(k)), CentreY(BoxOf(k)))

Site(stmt, x) == stmt \o "." \o ToString(x)

\* acceptTexts and avoidTexts of the fallback script
AcceptTexts ==
    { <<"accept", "all">>, <<"accept", "all", "cookies">>,
      <<"accepter", "tout">>, <<"tout", "accepter">>, <<"i", "accept">>,
      <<"i", "agree">>, <<"allow", "all">>, <<"confirm", "my", "choices">> }

AvoidTexts ==
    { <<"cookie", "notice">>, <<"cookie", "policy">>, <<"privacy", "policy">>,
      <<"learn", "more">>, <<"read", "more">>, <<"manage">>, <<"settings">>,
      <<"customize">>, <<"preferences">> }

Avoided(k) == ContainsAny(Lower(CookieElement(k).text), AvoidTexts)

\* the accept buttons in the document, rendered or not
FallbackCandidates_AnyAttached(d) ==
    {k \in CookieKinds :
        /\ d[k] # "absent"
        /\ CookieElement(k).tag = "button"
        /\ ~Avoided(k)
        /\ ContainsAny(Lower(CookieElement(k).text), AcceptTexts)}

\* the buttons the fallback script would click, in document order
FallbackCandidates(d) ==
    {k \in CookieKinds :
        /\ d[k] = "visible"
        /\ CookieElement(k).tag = "button"
        /\ ~Avoided(k)
        /\ ContainsAny(Lower(CookieElement(k).text), AcceptTexts)}

\* the JavaScript fallback of accept_cookies
AcceptFallback(d, F) ==
    IF "ck.eval" \in F \/ FallbackCandidates(d) = {}
    THEN [ret |-> "false", ev |-> <<>>, strat |-> 0]
    ELSE [ret |-> "true", ev |-> <<ClickOn(FirstOf(FallbackCandidates(d)))>>,
          strat |-> Len(COOKIE_ACCEPT_SELECTORS) + 1]

\* a click that is not retried with force
ButtonClickFails_NoForce(button, F) == Site("ck.click", button) \in F

\* button.click(timeout=3000) raises and so does button.click(force=True)
ButtonClickFails(button, F) ==
    Site("ck.click", button) \in F /\ Site("ck.force", button) \in F

\* entries i.. of the selector loop; an entry that raises is skipped
RECURSIVE AcceptFrom(_, _, _)
AcceptFrom(i, d, F) ==
    IF i > Len(COOKIE_ACCEPT_SELECTORS) THEN AcceptFallback(d, F)
    ELSE IF Site("ck.count", i) \in F \/ CookieLocator(i, d) = {}
         THEN AcceptFrom(i + 1, d, F)
    ELSE LET button == FirstOf(CookieLocator(i, d))
         IN IF Site("ck.visible", button) \in F \/ d[button] # "visible"
            THEN AcceptFrom(i + 1, d, F)
            ELSE IF ButtonClickFails(button, F)
                 THEN AcceptFrom(i + 1, d, F)
            ELSE [ret |-> "true", ev |-> <<ClickOn(button)>>, strat |-> i]

accept_cookies(d, F) == AcceptFrom(1, d, F)

CookieSites ==
    {Site("ck.count", i) : i \in 1..Len(COOKIE_ACCEPT_SELECTORS)}
        \cup {Site("ck.visible", k) : k \in CookieKinds}
        \cup {Site("ck.click", k) : k \in CookieKinds}
        \cup {Site("ck.force", k) : k \in CookieKinds}
        \cup {"ck.scroll", "ck.wait", "ck.eval"}

(***************************************************************************)
(* Modal chain: ModalHandler.close_modal                                   *)
(***************************************************************************)
\* the container an element sits in ("" = none)
ContainerOf(k) ==
    CASE k = "md_modal_close" -> "md_modal_box"
      [] k = "md_nudge_close" -> "md_nudge_box"
      [] OTHER -> ""

\* an element is in the document only with its container, and rendered only
\* inside a rendered container
InDocument(d, k) ==
    d[k] # "absent" /\ (ContainerOf(k) # "" => d[ContainerOf(k)] # "absent")

Rendered(d, k) ==
    d[k] = "visible" /\ (ContainerOf(k) # "" => d[ContainerOf(k)] = "visible")

\* the kinds each entry of MODAL_CLOSE_SELECTORS matches, in list order
MODAL_CLOSE_SELECTORS ==
    << {"md_aria_close"},   \* button[aria-label='Close']
       {},                  \* button[aria-label='close']
       {},                  \* [aria-label='Close'] button
       {},                  \* [aria-label='close'] button
       {},                  \* [aria-label='Close sign in nudge']
       {},                  \* .sign-in-nudge__close
       {},                  \* .sign-in-nudge__flyout-close
       {},                  \* .cdr-modal__close-button_16-2-1
       {},                  \* .zds-dialog-close-button
       {},                  \* .zds-dialog-icon-button.zds-dialog-close-button
       {"md_modal_close"},  \* [class*='modal'] [class*='close']
       {},                  \* [class*='dialog'] [class*='close']
       {},                  \* [class*='popup'] [class*='close']
       {"md_modal_close"},  \* [class*='modal'] button[class*='close']
       {},                  \* [class*='overlay'] [class*='close']
       {},                  \* [role='dialog'] button[aria-label*='close' i]
       {},                  \* [role='dialog'] button[aria-label*='Close']
       {},                  \* [class*='newsletter'] [class*='close']
       {},                  \* [class*='signup'] [class*='close']
       {},                  \* [class*='sign-up'] [class*='close']
       {},                  \* [class*='email'] [class*='close']
       {},                  \* [class*='country'] [class*='close']
       {},                  \* [class*='region'] [class*='close']
       {},                  \* [class*='geolocation'] [class*='close']
       {},                  \* [class*='locale'] [class*='close']
       {},                  \* button svg[class*='close']
       {},                  \* button [class*='icon-close']
       {} >>                \* button[class*='icon-only'] svg

ModalLocator(i, d) == {k \in MODAL_CLOSE_SELECTORS[i] : InDocument(d, k)}

\* the close buttons the fallback script would click: a button marked close
\* (aria-label or class) that is rendered inside a rendered container
ModalFallbackCandidates(d) ==
    {k \in {"md_modal_close", "md_nudge_close"} : Rendered(d, k)}

ModalFallback(d, F) ==
    IF "md.eval" \in F \/ ModalFallbackCandidates(d) = {}
    THEN [ret |-> "false", ev |-> <<>>, strat |-> 0]
    ELSE [ret |-> "true", ev |-> <<ClickOn(FirstOf(ModalFallbackCandidates(d)))>>,
          strat |-> Len(MODAL_CLOSE_SELECTORS) + 1]

\* entries i.. of the selector loop; an entry that raises is skipped
RECURSIVE CloseFrom(_, _, _)
CloseFrom(i, d, F) ==
    IF i > Len(MODAL_CLOSE_SELECTORS) THEN ModalFallback(d, F)
    ELSE IF Site("md.count", i) \in F \/ ModalLocator(i, d) = {}
         THEN CloseFrom(i + 1, d, F)
    ELSE LET button == FirstOf(ModalLocator(i, d))
         IN IF Site("md.visible", button) \in F \/ ~Rendered(d, button)
            THEN CloseFrom(i + 1, d, F)
            ELSE IF Site("md.click", button) \in F
                 THEN CloseFrom(i + 1, d, F)
            ELSE [ret |-> "true", ev |-> <<ClickOn(button)>>, strat |-> i]

close_modal(d, F) == CloseFrom(1, d, F)

ModalSites ==
    {Site("md.count", i) : i \in 1..Len(MODAL_CLOSE_SELECTORS)}
        \cup {Site("md.visible", k) : k \in ModalKinds}
        \cup {Site("md.click", k) : k \in ModalKinds}
        \cup {"md.eval"}

(***************************************************************************)
(* Direct calls of the overlay handlers                                    *)
(***************************************************************************)
\* with the sets in which both clicks on one button fail
CookieFaultSets ==
    FaultSets(CookieSites)
        \cup {{Site("ck.click", k), Site("ck.force", k)} : k \in CookieKinds}
ModalFaultSets == FaultSets(ModalSites)

(***************************************************************************)
(* Cookie-banner detection                                                 *)
(***************************************************************************)
\* COOKIE_MODAL_SELECTORS, in the order of the list: the kinds each matches
COOKIE_MODAL_SELECTORS ==
    << {"ck_banner_box"},                   \* [class*='cookie-banner']
       {}, {}, {}, {}, {}, {}, {}, {}, {}, {}, {},
       {"ck_onetrust_box", "ck_onetrust"},  \* [id*='onetrust']
       {}, {}, {}, {}, {}, {}, {}, {} >>

cookie_keywords ==
    { <<"cookie">>, <<"cookies">>, <<"consent">>, <<"gdpr">>, <<"privacy">>,
      <<"accept", "all">>, <<"accepter">>, <<"akzeptieren">> }

CookieDetectKinds == CookieKinds \cup CookieBoxKinds

\* the words an element contributes to page.content()
Markup(k) ==
    CASE k = "ck_banner_box" -> <<"div", "class", "cookie", "banner">>
      [] k = "ck_onetrust_box" -> <<"div", "id", "onetrust", "banner", "sdk">>
      [] k = "ck_privacy_link" -> <<"a", "Privacy", "policy">>
      [] OTHER ->
            (IF "cookie" \in CookieElement(k).scope
             THEN <<"div", "class", "cookie">> ELSE <<>>)
                \o <<CookieElement(k).tag>> \o CookieElement(k).text

\* any(keyword in page_content for keyword in cookie_keywords)
has_cookie_text(d) ==
    \E k \in CookieDetectKinds :
        d[k] # "absent" /\ ContainsAny(Lower(Markup(k)), cookie_keywords)

ModalLocated(d) ==
    [i \in 1..Len(COOKIE_MODAL_SELECTORS) |->
        {k \in COOKIE_MODAL_SELECTORS[i] : d[k] # "absent"}]

\* COOKIE_ACCEPT_SELECTORS[:20]
AcceptLocated(d) == [i \in 1..20 |-> CookieLocator(i, d)]

\* _has_visible_element: the loop returns True at the first selector whose
\* first element is visible; a selector whose query raises is skipped
_has_visible_element(located, stmt, d, F) ==
    \E i \in 1..Len(located) :
        /\ Site(stmt \o ".count", i) \notin F
        /\ located[i] # {}
        /\ Site(stmt \o ".visible", i) \notin F
        /\ d[FirstOf(located[i])] = "visible"

\* CookieHandler.detect_cookie_modal of handlers/cookie_handler.py
detect_cookie_modal(d, F) ==
    IF "cd.content" \in F THEN FALSE
    ELSE IF ~has_cookie_text(d) THEN FALSE
    ELSE _has_visible_element(ModalLocated(d), "cd.modal", d, F)

\* CookieHandler.detect_cookie_modal of utils/antibot.py, the class the
\* page objects import
utils_detect_cookie_modal(d, F) ==
    IF "cd.content" \in F THEN FALSE
    ELSE IF ~has_cookie_text(d) THEN FALSE
    ELSE IF _has_visible_element(ModalLocated(d), "cd.modal", d, F) THEN TRUE
    ELSE _has_visible_element(AcceptLocated(d), "cd.accept", d, F)

\* the selectors that match some element of the pages considered
MatchedModalEntries ==
    {i \in 1..Len(COOKIE_MODAL_SELECTORS) : COOKIE_MODAL_SELECTORS[i] # {}}

MatchedAcceptEntries ==
    {i \in 1..20 :
        \E k \in CookieKinds : SelectorMatches(COOKIE_ACCEPT_SELECTORS[i], k)}

DetectCookieSites ==
    {"cd.content"}
        \cup {Site("cd.modal.count", i) : i \in MatchedModalEntries}
        \cup {Site("cd.modal.visible", i) : i \in MatchedModalEntries}
        \cup {Site("cd.accept.count", i) : i \in MatchedAcceptEntries}
        \cup {Site("cd.accept.visible", i) : i \in MatchedAcceptEntries}

DetectCookieFaultSets == FaultSets(DetectCookieSites)

DetectCookieModal ==
    /\ pc = "idle"
    /\ \E F \in DetectCookieFaultSets :
          Finish("detect_cookie_modal",
                 [ret |-> BoolStr(detect_cookie_modal(dom, F)), ev |-> <<>>], 0, F)

UtilsDetectCookieModal ==
    /\ pc = "idle"
    /\ \E F \in DetectCookieFaultSets :
          Finish("utils.detect_cookie_modal",
                 [ret |-> BoolStr(utils_detect_cookie_modal(dom, F)), ev |-> <<>>],
                 0, F)

NextCookieDetect == DetectCookieModal \/ UtilsDetectCookieModal

InitCookieDetect == InitOver({TitleShop}, CookieDetectKinds)

SpecCookieDetect == InitCookieDetect /\ [][NextCookieDetect]_vars

AcceptCookies ==
    /\ pc = "idle"
    /\ \E F \in CookieFaultSets :
          LET r == accept_cookies(dom, F)
          IN Finish("accept_cookies", r, r.strat, F)

CloseModal ==
    /\ pc = "idle"
    /\ \E F \in ModalFaultSets :
          LET r == close_modal(dom, F)
          IN Finish("close_modal", r, r.strat, F)

NextOverlay == AcceptCookies \/ CloseModal

InitOverlay == InitOver({TitleShop}, OverlayKinds)

SpecOverlay == InitOverlay /\ [][NextOverlay]_vars

\* the locating operations on the challenge pages and on the overlay pages
NextLocate == SolveTurnstile \/ SolveCheckbox \/ AcceptCookies \/ CloseModal

InitLocate == InitSolvers \/ InitOverlay

SpecLocate == InitLocate /\ [][NextLocate]_vars

(***************************************************************************)
(* Properties of the locating chains                                       *)
(***************************************************************************)
\* some entry of the chain of operation o has a present and visible target
EntryMatches(o, d) ==
    CASE o = "solve_cloudflare_turnstile" -> \E i \in 1..8 : Eligible(i, d)
      [] o = "solve_checkbox" ->
            \/ Present(d, SelRobotCheckbox) /\ d[First(d, SelRobotCheckbox)] = "visible"
            \/ Present(d, SelAnyCheckbox) /\ d[First(d, SelAnyCheckbox)] = "visible"
      [] o = "accept_cookies" ->
            \/ \E i \in 1..Len(COOKIE_ACCEPT_SELECTORS) :
                  /\ CookieLocator(i, d) # {}
                  /\ d[FirstOf(CookieLocator(i, d))] = "visible"
            \/ \E k \in CookieKinds :
                  /\ d[k] = "visible"
                  /\ CookieElement(k).tag = "button"
                  /\ ContainsAny(Lower(CookieElement(k).text), AcceptTexts)
      [] o = "close_modal" ->
            \/ \E i \in 1..Len(MODAL_CLOSE_SELECTORS) :
                  /\ ModalLocator(i, d) # {}
                  /\ Rendered(d, FirstOf(ModalLocator(i, d)))
            \/ \E k \in {"md_modal_close", "md_nudge_close"} : Rendered(d, k)

LocatingOps ==
    {"solve_cloudflare_turnstile", "solve_checkbox", "accept_cookies", "close_modal"}

\* C12: when no entry of its chain matches, a locating operation returns
\* false and issues no pointer move, pointer down or up, or click, whatever
\* page operation fails.
C12_NoMatchNoSideEffect ==
    (op \in LocatingOps /\ pc = "done" /\ ~EntryMatches(op, dom)) =>
        (ret = "false" /\ events = <<>>)

C12_Witness ==
    /\ op = "accept_cookies"
    /\ pc = "done"
    /\ dom["ck_allow_all"] = "hidden"
    /\ dom["ck_accept_all"] = "hidden"
    /\ ~EntryMatches(op, dom)
    /\ ret = "false"
    /\ events = <<>>

(***************************************************************************)
(* Properties of the puzzle-slider solver                                  *)
(***************************************************************************)
PuzzleDone == op = "solve_puzzle_slider" /\ pc = "done"

\* the solver finds the marker and a handle
HandleLocated(d) ==
    /\ Present(d, SelSlideText)
    /\ d["puzzle_btn"] = "visible" \/ d["puzzle_js_btn"] = "visible"

LocatedHandleBox(d) ==
    IF d["puzzle_btn"] = "visible" THEN BoxOf("puzzle_btn") ELSE BoxOf("puzzle_js_btn")

\* the pointer events of one drag from (sx, sy) to abscissa ex
DragEvents(sx, sy, ex) ==
    <<Ev("move", sx, sy), Ev("down", sx, sy), Ev("drag", ex, sy), Ev("up", ex, sy)>>

\* the number of drags after which the marker is found gone (all five when
\* it never is)
DragsDue == IF args.gone_at = 0 THEN 5 ELSE args.gone_at

\* C13: without a failing page operation the puzzle solver drags to the
\* offsets 65, 55, 75, 45, 85 percent in that order, every drag from the
\* centre of the one handle box it located, and the drag after which the
\* marker check finds the marker gone is the last one.
C13_OffsetSequence ==
    (PuzzleDone /\ faults = {} /\ HandleLocated(dom)) =>
        LET sx == CentreX(LocatedHandleBox(dom))
            sy == CentreY(LocatedHandleBox(dom))
            claimed == <<65, 55, 75, 45, 85>>
        IN /\ Len(events) = 4 * DragsDue
           /\ \A k \in 1..DragsDue :
                 SubSeq(events, 4 * k - 3, 4 * k) =
                     DragEvents(sx, sy, sx + (4 * PuzzleTrackWidth * claimed[k]) \div 100)

C13_Witness ==
    /\ PuzzleDone
    /\ faults = {}
    /\ HandleLocated(dom)
    /\ args.gone_at = 3
    /\ Len(events) = 12

\* C14: when a handle was found the puzzle solver returns true whether or
\* not a marker check found the marker gone; with the marker never gone it
\* has made all five drags.
C14_AttemptReportedAsSuccess ==
    (PuzzleDone /\ faults = {} /\ HandleLocated(dom)) =>
        /\ ret = "true"
        /\ args.gone_at = 0 => Len(events) = 4 * Len(PuzzleOffsets)

C14_Witness ==
    /\ PuzzleDone
    /\ faults = {}
    /\ HandleLocated(dom)
    /\ args.gone_at = 0
    /\ ret = "true"
    /\ Len(events) = 20

\* C15: for offset p the drag of the puzzle solver ends at the handle-centre
\* abscissa plus p times the width of the slider track of the page.
C15_OffsetOfTrackWidth ==
    (PuzzleDone /\ faults = {} /\ HandleLocated(dom)) =>
        \A k \in 1..DragsDue :
            events[4 * k - 1] =
                Ev("drag",
                   CentreX(LocatedHandleBox(dom))
                       + (4 * args.track_width * PuzzleOffsets[k]) \div 100,
                   CentreY(LocatedHandleBox(dom)))

(***************************************************************************)
(* Pointer paths, waypoint by waypoint                                     *)
(* Coordinates are in quarter pixels, durations in milliseconds.  The      *)
(* random draws of a path (jitter, wobble, step count, hold time) are its  *)
(* inputs; a jitter is a pattern the steps run through cyclically.         *)
(***************************************************************************)
Max(a, b) == IF a >= b THEN a ELSE b

\* int(a / b) for b > 0: the quotient truncated toward zero
Trunc(a, b) == IF a >= 0 THEN a \div b ELSE 0 - ((0 - a) \div b)

\* page.viewport_size: None or a width and a height in pixels
NoViewport == [present |-> FALSE, width |-> 0, height |-> 0]

Viewports ==
    {NoViewport,
     [present |-> TRUE, width |-> 1280, height |-> 720],
     [present |-> TRUE, width |-> 1921, height |-> 1081]}

\* the position a move assumes the pointer to be at: the viewport centre,
\* or (fallback, fallback) without a viewport
AssumedPosition(viewport, fallback) ==
    IF viewport.present
    THEN <<4 * (viewport.width \div 2), 4 * (viewport.height \div 2)>>
    ELSE <<4 * fallback, 4 * fallback>>

\* int(distance / 20) for the Euclidean distance of (dx, dy)
DistanceSteps(dx, dy) ==
    CHOOSE n \in 0..250 :
        /\ (80 * n) * (80 * n) <= dx * dx + dy * dy
        /\ (80 * (n + 1)) * (80 * (n + 1)) > dx * dx + dy * dy

JitterAt(jit, i) == jit[((i - 1) % Len(jit)) + 1]

\* _smooth_mouse_move: max(10, int(distance / 20)) waypoints on an ease-out
\* curve from the assumed position, each with a jitter in [-2, 2] px
_smooth_mouse_move(viewport, target_x, target_y, jit) ==
    LET cur == AssumedPosition(viewport, 100)
        steps == Max(10, DistanceSteps(target_x - cur[1], target_y - cur[2]))
        Eased(delta, i) ==
            (delta * (steps * steps - (steps - i) * (steps - i))) \div (steps * steps)
    IN [i \in 1..steps |->
           Ev("move", cur[1] + Eased(target_x - cur[1], i) + JitterAt(jit, i)[1],
                      cur[2] + Eased(target_y - cur[2], i) + JitterAt(jit, i)[2])]

\* HumanBehavior.mouse_move: steps = random.randint(10, 25) waypoints on a
\* straight line from the assumed position, each truncated to a whole pixel
\* and moved by a whole-pixel jitter in -2..2
mouse_move(viewport, x, y, steps, jit) ==
    LET cur == AssumedPosition(viewport, 0)
        Whole(c, t, i) == 4 * ((c * steps + (t - c) * i) \div (4 * steps))
    IN [i \in 1..steps |->
           Ev("move", Whole(cur[1], x, i) + JitterAt(jit, i)[1],
                      Whole(cur[2], y, i) + JitterAt(jit, i)[2])]

\* page.mouse.down() and up() act where the pointer is: at the last waypoint
ButtonAt(t, path) == Ev(t, path[Len(path)].x, path[Len(path)].y)

\* _human_drag, waypoint by waypoint: smooth move to the start, pointer
\* down, max(20, int(distance / 10)) moves on the line y = start_y, each
\* with a wobble in [-3, 3] px, pointer up
_human_drag_path(viewport, start_x, start_y, end_x, jit, wobble) ==
    LET approach == _smooth_mouse_move(viewport, start_x, start_y, jit)
        distance == end_x - start_x
        steps == Max(20, Trunc(distance, 40))
        pull == [i \in 1..steps |->
                    Ev("move", start_x + (distance * i) \div steps,
                               start_y + JitterAt(wobble, i))]
    IN approach \o <<ButtonAt("down", approach)>> \o pull \o <<ButtonAt("up", pull)>>

\* HumanBehavior.drag, waypoint by waypoint: mouse_move to the centre of
\* start_box, pointer down, mouse_move to (end_x, end_y), pointer up;
\* end_y = 0 stands for an end_y that is not given
drag_path(viewport, start_box, end_x, end_y, steps1, steps2, jit) ==
    LET start_x == CentreX(start_box)
        start_y == CentreY(start_box)
        ey == IF end_y = 0 THEN start_y ELSE end_y
        approach == mouse_move(viewport, start_x, start_y, steps1, jit)
        pull == mouse_move(viewport, end_x, ey, steps2, jit)
    IN approach \o <<ButtonAt("down", approach)>> \o pull \o <<ButtonAt("up", pull)>>

\* a hold_duration that is not given (None)
NoDuration == 0 - 1

\* duration = hold_duration or random.uniform(2.0, 4.0), u the random draw
HoldTime(hold_duration, u) ==
    IF hold_duration = NoDuration \/ hold_duration = 0 THEN u ELSE hold_duration

Sleep(ms) == [type |-> "sleep", ms |-> ms]

\* solve_press_and_hold on a button with bounding box `box`: smooth move to
\* the jittered centre, pointer down, sleep(duration), pointer up
press_and_hold(viewport, box, j, hold_duration, u, jit) ==
    LET approach == _smooth_mouse_move(viewport, CentreX(box) + 4 * j[1],
                                       CentreY(box) + 4 * j[2], jit)
    IN approach \o <<ButtonAt("down", approach), Sleep(HoldTime(hold_duration, u)),
                     ButtonAt("up", approach)>>

\* HumanBehavior.hold_at
hold_at(viewport, x, y, duration, u, steps, jit) ==
    LET approach == mouse_move(viewport, x, y, steps, jit)
    IN approach \o <<ButtonAt("down", approach), Sleep(HoldTime(duration, u)),
                     ButtonAt("up", approach)>>

(***************************************************************************)
(* Direct calls of the pointer primitives                                  *)
(***************************************************************************)
\* targets of a move, in quarter pixels: (115, 510), (115.5, 510), the
\* centre of the 1280 x 720 viewport, (100, 100), (1200, 100), (1900, 1000)
MoveTargets ==
    {<<460, 2040>>, <<462, 2040>>, <<2560, 1440>>, <<400, 400>>, <<4800, 400>>,
     <<7600, 4000>>}

\* draws of random.uniform(-2, 2) on both axes
SmoothJitters == {<< <<0, 0>> >>, << <<8, -8>> >>, << <<-8, 8>>, <<3, -5>> >>}

\* draws of random.randint(-2, 2) on both axes
WholeJitters == {<< <<0, 0>> >>, << <<-8, -8>> >>, << <<8, 4>>, <<-4, 8>> >>}

\* draws of random.uniform(-3, 3)
Wobbles == {<<0>>, <<12, -12>>, <<-5, 7, 12>>}

\* draws of random.randint(10, 25)
StepDraws == 10..25

\* the bounding boxes of a slider track and of its handle
TrackBoxes ==
    {[x |-> 100, y |-> 500, width |-> 200, height |-> 20],
     [x |-> 40, y |-> 300, width |-> 320, height |-> 16]}

HandleBoxes ==
    {[x |-> 100, y |-> 495, width |-> 30, height |-> 30],
     [x |-> 40, y |-> 293, width |-> 35, height |-> 30]}

\* hold_duration arguments and draws of random.uniform(2.0, 4.0)
HoldDurations == {NoDuration, 0, 1500, 3000}
HoldDraws == {2000, 3100, 4000}

\* a direct call that returned: its events and its arguments are recorded
Returned(name, ev, a) ==
    /\ op' = name
    /\ pc' = "done"
    /\ faults' = {}
    /\ ret' = "returned"
    /\ events' = ev
    /\ strategy' = 0
    /\ args' = a
    /\ UNCHANGED <<title, dom, detection, calls, cf, solved_any>>

SmoothMouseMove ==
    /\ pc = "idle"
    /\ \E vp \in Viewports, t \in MoveTargets, jit \in SmoothJitters :
          Returned("_smooth_mouse_move", _smooth_mouse_move(vp, t[1], t[2], jit),
                   [viewport |-> vp, x |-> t[1], y |-> t[2]])

MouseMove ==
    /\ pc = "idle"
    /\ \E vp \in Viewports, t \in MoveTargets, n \in StepDraws, jit \in WholeJitters :
          Returned("mouse_move", mouse_move(vp, t[1], t[2], n, jit),
                   [viewport |-> vp, x |-> t[1], y |-> t[2]])

HumanDragPath ==
    /\ pc = "idle"
    /\ \E vp \in Viewports, b \in DragStarts \cup HandleBoxes, end_x \in DragEnds,
          jit \in SmoothJitters, w \in Wobbles :
          Returned("_human_drag",
                   _human_drag_path(vp, CentreX(b), CentreY(b), end_x, jit, w),
                   [viewport |-> vp, start_x |-> CentreX(b), start_y |-> CentreY(b),
                    end_x |-> end_x])

DragPath ==
    /\ pc = "idle"
    /\ \E vp \in Viewports, b \in DragStarts \cup HandleBoxes, end_x \in DragEnds,
          n1 \in StepDraws, n2 \in StepDraws, jit \in WholeJitters :
          Returned("drag", drag_path(vp, b, end_x, 0, n1, n2, jit),
                   [viewport |-> vp, start_x |-> CentreX(b), start_y |-> CentreY(b),
                    end_x |-> end_x])

\* solve_slider once both boxes are located: the drag it makes
SlideOver ==
    /\ pc = "idle"
    /\ \E vp \in Viewports, track_box \in TrackBoxes, handle_box \in HandleBoxes,
          jit \in SmoothJitters, w \in Wobbles :
          Returned("solve_slider",
                   _human_drag_path(vp, CentreX(handle_box), CentreY(handle_box),
                                    SliderEndX(track_box), jit, w),
                   [viewport |-> vp, track_box |-> track_box,
                    handle_box |-> handle_box])

\* solve_press_and_hold once the button is located
PressAndHold ==
    /\ pc = "idle"
    /\ \E vp \in Viewports, j \in Jitters, h \in HoldDurations, u \in HoldDraws,
          jit \in SmoothJitters :
          Returned("solve_press_and_hold",
                   press_and_hold(vp, BoxOf("press_hold_btn"), j, h, u, jit),
                   [viewport |-> vp, hold_duration |-> h])

HoldAt ==
    /\ pc = "idle"
    /\ \E vp \in Viewports, t \in MoveTargets, h \in HoldDurations, u \in HoldDraws,
          n \in {10, 25}, jit \in WholeJitters :
          Returned("hold_at", hold_at(vp, t[1], t[2], h, u, n, jit),
                   [viewport |-> vp, hold_duration |-> h])

\* the bounding boxes of a located widget
WidgetBoxes ==
    {[x |-> 100, y |-> 200, width |-> 300, height |-> 65],
     [x |-> 0, y |-> 0, width |-> 139, height |-> 24],
     [x |-> 50, y |-> 80, width |-> 140, height |-> 40],
     [x |-> 640, y |-> 360, width |-> 141, height |-> 33],
     [x |-> 10, y |-> 10, width |-> 20, height |-> 20]}

\* HumanBehavior.click_at: mouse_move(x, y), then page.mouse.click(x, y)
click_at(viewport, x, y, steps, jit) ==
    Append(mouse_move(viewport, x, y, steps, jit), Ev("click", x, y))

\* AntibotHandler._click_turnstile_checkbox with the waypoints of its move
AntibotClickTurnstile(viewport, box, jit) ==
    Append(_smooth_mouse_move(viewport, TurnstileTargetX(box),
                              TurnstileTargetY(box), jit),
           Ev("click", TurnstileTargetX(box), TurnstileTargetY(box)))

\* CloudflareHandler._click_turnstile_checkbox: human.click_at on the target
CloudflareClickTurnstile(viewport, box, steps, jit) ==
    click_at(viewport, TurnstileTargetX(box), TurnstileTargetY(box), steps, jit)

ClickTurnstileCheckbox ==
    /\ pc = "idle"
    /\ \E vp \in Viewports, box \in WidgetBoxes, jit \in SmoothJitters :
          Returned("_click_turnstile_checkbox",
                   AntibotClickTurnstile(vp, box, jit),
                   [viewport |-> vp, box |-> box])

CfClickTurnstileCheckbox ==
    /\ pc = "idle"
    /\ \E vp \in Viewports, box \in WidgetBoxes, n \in {10, 17, 25},
          jit \in WholeJitters :
          Returned("cf._click_turnstile_checkbox",
                   CloudflareClickTurnstile(vp, box, n, jit),
                   [viewport |-> vp, box |-> box])

NextMotion ==
    \/ SmoothMouseMove
    \/ MouseMove
    \/ HumanDragPath
    \/ DragPath
    \/ SlideOver
    \/ PressAndHold
    \/ HoldAt
    \/ ClickTurnstileCheckbox
    \/ CfClickTurnstileCheckbox

InitMotion == InitOver({TitleShop}, {})

SpecMotion == InitMotion /\ [][NextMotion]_vars

(***************************************************************************)
(* Properties of the pointer paths                                         *)
(***************************************************************************)
Abs(a) == IF a >= 0 THEN a ELSE 0 - a

\* event e is a move within tol quarter pixels of (x, y) on each axis
MoveNear(e, x, y, tol) ==
    e.type = "move" /\ Abs(e.x - x) <= tol /\ Abs(e.y - y) <= tol

Indices(t) == {i \in 1..Len(events) : events[i].type = t}

DownAt == CHOOSE i \in Indices("down") : TRUE

ScenarioTrack == [x |-> 100, y |-> 500, width |-> 200, height |-> 20]
ScenarioHandle == [x |-> 100, y |-> 495, width |-> 30, height |-> 30]

\* C16: solve_slider presses the button after a move to the centre of the
\* handle box (within the 2 px jitter of a move) and releases it after a
\* last move at x = track.x + track.width - 10, every move of the drag
\* within 3 px of the handle-centre ordinate; for the track (100, 500,
\* 200, 20) and the handle (100, 495, 30, 30) the press follows the move to
\* (115, 510) and the last move is at x = 290, y within 510 +- 3.
C16_SliderDrag ==
    (op = "solve_slider" /\ pc = "done" /\ args # NoArgs) =>
        LET n == Len(events)
            cx == CentreX(args.handle_box)
            cy == CentreY(args.handle_box)
        IN /\ Cardinality(Indices("down")) = 1
           /\ Indices("up") = {n}
           /\ DownAt > 1
           /\ MoveNear(events[DownAt - 1], cx, cy, 8)
           /\ \A i \in (DownAt + 1)..(n - 1) :
                 events[i].type = "move" /\ Abs(events[i].y - cy) <= 12
           /\ events[n - 1].x = 4 * (args.track_box.x + args.track_box.width - 10)
           /\ (args.track_box = ScenarioTrack /\ args.handle_box = ScenarioHandle) =>
                 /\ MoveNear(events[DownAt - 1], 4 * 115, 4 * 510, 8)
                 /\ events[n - 1].type = "move"
                 /\ events[n - 1].x = 4 * 290
                 /\ Abs(events[n - 1].y - 4 * 510) <= 12

C16_Witness ==
    /\ op = "solve_slider"
    /\ pc = "done"
    /\ args # NoArgs
    /\ args.track_box = ScenarioTrack
    /\ args.handle_box = ScenarioHandle
    /\ events[Len(events)].type = "up"
    /\ events[Len(events) - 1].x = 4 * 290
    /\ events[Len(events) - 1].y # 4 * 510

MoveOps == {"_smooth_mouse_move", "mouse_move"}

\* the position the move of the finished call assumed the pointer to be at
AssumedStart ==
    AssumedPosition(args.viewport, IF op = "mouse_move" THEN 0 ELSE 100)

\* max(10, distance / 20) for the distance from the assumed position to the
\* target of the finished call
StepsForDistance ==
    Max(10, DistanceSteps(args.x - AssumedStart[1], args.y - AssumedStart[2]))

\* C17: the last waypoint of a move is within 2 px of the target on each
\* axis, and the number of waypoints is max(10, distance / 20) for the
\* distance from the assumed current position to the target: never less
\* than 10 and non-decreasing in the distance.
C17_WaypointsOfMove ==
    (op \in MoveOps /\ pc = "done") =>
        /\ MoveNear(events[Len(events)], args.x, args.y, 8)
        /\ Len(events) >= 10
        /\ Len(events) = StepsForDistance

\* the same statement for _smooth_mouse_move alone
SmoothMoveConforms ==
    (op = "_smooth_mouse_move" /\ pc = "done") =>
        /\ MoveNear(events[Len(events)], args.x, args.y, 8)
        /\ Len(events) = StepsForDistance

\* mouse_move never makes fewer than 10 waypoints
MouseMoveAtLeastTen == (op = "mouse_move" /\ pc = "done") => Len(events) >= 10

DragOps == {"_human_drag", "drag"}

Between(x, a, b) == (a <= x /\ x <= b) \/ (b <= x /\ x <= a)

\* the shape of a drag from (sx, sy) to abscissa ex: moves ending at the
\* start point, one pointer-down, at least max(20, dx / 10) moves inside
\* the corridor (X between sx and ex, Y within 3 px of sy), one pointer-up
DragShape(sx, sy, ex) ==
    LET n == Len(events)
    IN /\ Cardinality(Indices("down")) = 1
       /\ Indices("up") = {n}
       /\ DownAt > 1
       /\ \A i \in 1..(DownAt - 1) : events[i].type = "move"
       /\ MoveNear(events[DownAt - 1], sx, sy, 8)
       /\ n - 1 - DownAt >= Max(20, Trunc(ex - sx, 40))
       /\ \A i \in (DownAt + 1)..(n - 1) :
             /\ events[i].type = "move"
             /\ Between(events[i].x, sx, ex)
             /\ Abs(events[i].y - sy) <= 12

\* C18: a drag emits moves ending at the start point, exactly one
\* pointer-down, at least max(20, dx / 10) moves whose X lies between the
\* start X and the end X and whose Y is within 3 px of the start Y, then
\* exactly one pointer-up.
C18_DragCorridor ==
    (op \in DragOps /\ pc = "done" /\ faults = {} /\ args # NoArgs) =>
        DragShape(args.start_x, args.start_y, args.end_x)

\* the same statement for _human_drag alone
HumanDragConforms ==
    (op = "_human_drag" /\ pc = "done" /\ faults = {} /\ args # NoArgs) =>
        DragShape(args.start_x, args.start_y, args.end_x)

HoldOps == {"solve_press_and_hold", "hold_at"}

\* the time slept between pointer-down and pointer-up, in milliseconds
Held == events[DownAt + 1].ms

\* C19: the pointer is held down for exactly the duration the caller
\* specified, whatever its value (0 included), and for a time within
\* [2.0 s, 4.0 s] only when the caller specified none.
C19_HoldDuration ==
    (op \in HoldOps /\ pc = "done" /\ args # NoArgs) =>
        /\ events[DownAt + 1].type = "sleep"
        /\ events[DownAt + 2].type = "up"
        /\ args.hold_duration # NoDuration => Held = args.hold_duration
        /\ args.hold_duration = NoDuration => (2000 <= Held /\ Held <= 4000)

\* the same statement for the durations that are not 0
NonZeroHoldConforms ==
    (op \in HoldOps /\ pc = "done" /\ args # NoArgs /\ args.hold_duration # 0) =>
        /\ args.hold_duration # NoDuration => Held = args.hold_duration
        /\ args.hold_duration = NoDuration => (2000 <= Held /\ Held <= 4000)

(***************************************************************************)
(* Properties of the consent chain                                         *)
(***************************************************************************)
\* the elements accept_cookies clicked
Clicked == {k \in CookieKinds : \E i \in 1..Len(events) : events[i] = ClickOn(k)}

\* C20: accept_cookies, by its selector chain or by its script fallback,
\* never clicks a button whose text holds a deny-listed phrase, even when
\* that text also holds an allow-listed accept phrase.
C20_NeverClicksDenyListed ==
    (op = "accept_cookies" /\ pc = "done") =>
        \A k \in Clicked : ~Avoided(k)

\* the same statement for the calls in which no selector of the chain
\* locates an element, so that only the script fallback can click
FallbackHonoursDenyList ==
    (/\ op = "accept_cookies" /\ pc = "done"
     /\ \A i \in 1..Len(COOKIE_ACCEPT_SELECTORS) : CookieLocator(i, dom) = {}) =>
        \A k \in Clicked : ~Avoided(k)

(***************************************************************************)
(* Properties of the checkbox solver                                       *)
(***************************************************************************)
\* the priority chain without a specific selector: human-verify-style,
\* generic robot-checkbox, bare input[type=checkbox]
CheckboxChain == <<SelHumanVerifyCheckbox, SelRobotCheckbox, SelAnyCheckbox>>

\* the entries of the chain that are present with a bounding box
WithBox(d) ==
    {i \in 1..Len(CheckboxChain) :
        Present(d, CheckboxChain[i]) /\ d[First(d, CheckboxChain[i])] = "visible"}

ChainTarget(d) ==
    First(d, CheckboxChain[CHOOSE i \in WithBox(d) : \A j \in WithBox(d) : i <= j])

\* a move to and a click on the centre of the box of k, up to a jitter
MoveAndClickOn(k) ==
    \E j \in Jitters :
        events = <<Ev("move", CentreX(BoxOf(k)) + 4 * j[1], CentreY(BoxOf(k)) + 4 * j[2]),
                   Ev("click", CentreX(BoxOf(k)) + 4 * j[1], CentreY(BoxOf(k)) + 4 * j[2])>>

\* C21: the checkbox solver goes through the human-verify-style selector,
\* the generic robot-checkbox selector and the bare input[type=checkbox]
\* selector in that order, clicks the first entry present with a bounding
\* box, and returns true exactly when an element was found and clicked.
C21_CheckboxPriorityChain ==
    (op = "solve_checkbox" /\ pc = "done" /\ faults = {}) =>
        /\ ret = BoolStr(WithBox(dom) # {})
        /\ WithBox(dom) = {} => events = <<>>
        /\ WithBox(dom) # {} => MoveAndClickOn(ChainTarget(dom))

\* the chain the solver has: the robot-checkbox selector, then any checkbox
SolverChainTarget(d) ==
    IF Present(d, SelRobotCheckbox) /\ d[First(d, SelRobotCheckbox)] = "visible"
    THEN First(d, SelRobotCheckbox)
    ELSE First(d, SelAnyCheckbox)

\* the same statement for the chain without the human-verify-style entry
TwoEntryChainConforms ==
    (op = "solve_checkbox" /\ pc = "done" /\ faults = {}) =>
        /\ ret = "true" => MoveAndClickOn(SolverChainTarget(dom))
        /\ ret = "false" => events = <<>>

(***************************************************************************)
(* close_all_modals, iteration by iteration                                *)
(***************************************************************************)
\* the kinds each entry of MODAL_CONTAINER_SELECTORS matches, in list order
MODAL_CONTAINER_SELECTORS ==
    << {},                  \* [role='dialog']
       {"md_modal_box"},    \* [class*='modal']
       {},                  \* [class*='popup']
       {},                  \* [class*='overlay']
       {"md_nudge_box"},    \* [class*='nudge']
       {},                  \* [class*='flyout']
       {},                  \* .zds-modal
       {},                  \* [class*='sign-in']
       {},                  \* [class*='newsletter']
       {} >>                \* [class*='geolocation']

\* detect_modal: some container selector whose first match is visible; an
\* entry that raises is skipped
detect_modal(d, F) ==
    \E i \in 1..Len(MODAL_CONTAINER_SELECTORS) :
        LET m == {k \in MODAL_CONTAINER_SELECTORS[i] : d[k] # "absent"}
        IN /\ Site("dm.count", i) \notin F
           /\ m # {}
           /\ Site("dm.visible", i) \notin F
           /\ d[FirstOf(m)] = "visible"

DetectModalSites ==
    {Site("dm.count", i) : i \in 1..Len(MODAL_CONTAINER_SELECTORS)}
        \cup {Site("dm.visible", i) : i \in 1..Len(MODAL_CONTAINER_SELECTORS)}

CloseAllFaultSets == FaultSets(ModalSites \cup DetectModalSites)

\* the loop tests one iteration more than range(max_attempts) has
InRange_Inclusive(i, max_attempts) == i <= max_attempts

\* for _ in range(max_attempts): iteration i + 1 exists
InRange(i, max_attempts) == i < max_attempts

\* one iteration of the loop body: "closed", or the reason of the break
CloseAllBody(d, F) ==
    IF ~detect_modal(d, F) THEN [how |-> "no_modal", ev |-> <<>>]
    ELSE LET r == close_modal(d, F)
         IN [how |-> IF r.ret = "true" THEN "closed" ELSE "close_failed", ev |-> r.ev]

\* the pages a stack of modals goes through
ModalDoms == DomsOver(ModalKinds, MaxElems)

\* the outcomes one iteration can have on each page
CloseAllOutcomes ==
    [d \in ModalDoms |-> {CloseAllBody(d, F) : F \in CloseAllFaultSets}]

CloseAllStart ==
    /\ pc = "idle"
    /\ \E m \in 0..MaxAttemptsArg :
          args' = [max_attempts |-> m, iterations |-> 0, closed_count |-> 0,
                   stopped |-> "no"]
    /\ op' = "close_all_modals"
    /\ pc' = "cam_loop"
    /\ UNCHANGED <<title, dom, faults, detection, ret, events, calls, cf, strategy,
                   solved_any>>

\* the loop test and, when it passes, the body of one iteration
CloseAllIterate ==
    /\ pc = "cam_loop"
    /\ UNCHANGED <<title, dom, op, detection, calls, cf, strategy, solved_any>>
    /\ IF ~InRange(args.iterations, args.max_attempts)
       THEN /\ pc' = "done"
            /\ ret' = ToString(args.closed_count)
            /\ args' = [args EXCEPT !.stopped = "exhausted"]
            /\ UNCHANGED <<faults, events>>
       ELSE \E r \in CloseAllOutcomes[dom] :
               /\ events' = events \o r.ev
               /\ faults' = {}
               /\ IF r.how = "closed"
                  THEN /\ args' = [args EXCEPT !.iterations = @ + 1,
                                               !.closed_count = @ + 1]
                       /\ UNCHANGED <<pc, ret>>
                  ELSE /\ args' = [args EXCEPT !.iterations = @ + 1,
                                               !.stopped = r.how]
                       /\ pc' = "done"
                       /\ ret' = ToString(args.closed_count)

\* between two iterations the page reacts: a modal goes, another comes
ModalsChange ==
    /\ pc = "cam_loop"
    /\ dom' \in ModalDoms \ {dom}
    /\ UNCHANGED <<args, title, op, pc, faults, detection, ret, events, calls, cf,
                   strategy, solved_any>>

NextCloseAll == CloseAllStart \/ CloseAllIterate \/ ModalsChange

InitCloseAll == InitOver({TitleShop}, ModalKinds)

\* the interpreter keeps running the loop: an iteration that can be taken
\* is taken
SpecCloseAll ==
    InitCloseAll /\ [][NextCloseAll]_vars /\ WF_vars(CloseAllIterate)

InCloseAll == op = "close_all_modals" /\ pc \in {"cam_loop", "done"}

CloseAllShape ==
    InCloseAll =>
        /\ args.iterations <= args.max_attempts
        /\ 0 <= args.closed_count /\ args.closed_count <= args.max_attempts
        /\ Len(events) = args.closed_count
        /\ args.stopped = "no" => args.iterations = args.closed_count
        /\ args.stopped \in {"no_modal", "close_failed"} =>
              args.iterations = args.closed_count + 1
        /\ args.stopped = "exhausted" => args.closed_count = args.max_attempts
        /\ pc = "done" => (ret = ToString(args.closed_count) /\ args.stopped # "no")

\* C22: close_all_modals makes at most max_attempts iterations, stops at
\* the first iteration in which no modal is detected or close_modal fails,
\* returns the number of successful close_modal calls, which is between 0
\* and max_attempts, and always terminates.
C22_BoundedCloseLoop ==
    /\ [](CloseAllShape)
    /\ (op = "close_all_modals" /\ pc = "cam_loop") ~> (pc = "done")

C22_Witness ==
    /\ op = "close_all_modals"
    /\ pc = "done"
    /\ args.max_attempts = 3
    /\ args.closed_count = 2
    /\ args.stopped = "close_failed"

(***************************************************************************)
(* Properties of the single-action solvers                                 *)
(***************************************************************************)
SingleActionOps ==
    { "solve_checkbox", "solve_recaptcha_checkbox", "solve_press_and_hold",
      "solve_slider", "handle_cloudflare", "solve_cloudflare_turnstile",
      "solve_human_verify" }

Count(t) == Cardinality({i \in 1..Len(events) : events[i].type = t})

\* C23: one invocation of a solver other than the puzzle-slider solver and
\* the full-solve routine makes at most one physical action: one click, or
\* one press and release, or one drag, whatever page operation fails.
C23_OneActionCycle ==
    (op \in SingleActionOps /\ pc = "done") =>
        /\ Count("click") + Count("down") <= 1
        /\ Count("up") <= Count("down")
        /\ Count("drag") <= Count("down")

C23_Witness ==
    /\ op = "handle_cloudflare"
    /\ pc = "done"
    /\ faults = {"tc.click"}
    /\ ret = "true"
    /\ Count("move") = 2
    /\ Count("click") = 1

(***************************************************************************)
(* Properties of the waits                                                 *)
(***************************************************************************)
AnyJitter == CHOOSE j \in Jitters : TRUE

\* what solver o returns on page d when the statements of F raise
ReturnOf(o, d, F) ==
    CASE o = "solve_checkbox" -> solve_checkbox(d, AnyJitter, F).ret
      [] o = "solve_recaptcha_checkbox" -> solve_recaptcha_checkbox(d, F).ret
      [] o = "solve_press_and_hold" -> solve_press_and_hold(d, AnyJitter, F).ret
      [] o = "solve_slider" -> solve_slider(d, F).ret
      [] o = "solve_puzzle_slider" -> solve_puzzle_slider(d, args.gone_at, F).ret
      [] o = "handle_cloudflare" -> handle_cloudflare(d, AnyJitter, F).ret
      [] o = "solve_cloudflare_turnstile" -> solve_cloudflare_turnstile(d, F).ret
      [] o = "solve_human_verify" -> solve_human_verify(d, AnyJitter, F).ret

\* C24: a wait that exceeds its maximum duration is not an error: a solver
\* whose wait times out does not raise and returns the boolean it returns
\* on the same page when the wait does not time out.
C24_WaitTimeoutHarmless ==
    (op \in SolverOps /\ pc = "done" /\ WaitSite \in faults) =>
        /\ ret \in {"true", "false"}
        /\ ret = ReturnOf(op, dom, faults \ {WaitSite})

C24_Witness ==
    /\ op = "solve_slider"
    /\ pc = "done"
    /\ faults = {WaitSite}
    /\ ret = "true"
    /\ Count("up") = 1

(***************************************************************************)
(* Properties of the block flag                                            *)
(***************************************************************************)
TitleBlocked(t) == ContainsAny(Lower(t), BlockedTitleTerms)

\* C25: is_blocked is set purely from the title: detect_antibot returns
\* is_blocked = true exactly when the lower-cased title contains "access
\* denied", "blocked" or "forbidden", whatever the DOM queries do.
C25_BlockedFromTitleOnly ==
    Classified => (detection["is_blocked"] = TitleBlocked(title))

\* when no statement of the classifier raises, the flag is the title test
BlockedFromTitleWhenNoQueryFails ==
    (Classified /\ faults = {}) =>
        (detection["is_blocked"] = TitleBlocked(title))

(***************************************************************************)
(* Properties of the widget click                                          *)
(***************************************************************************)
TurnstileClickOps == {"_click_turnstile_checkbox", "cf._click_turnstile_checkbox"}

LastEvent == events[Len(events)]

\* C26: the click inside a found widget box is at
\* (box.x + min(35, box.width / 4), box.y + box.height / 2), at most 35 px
\* from the left edge and vertically centred, and it is issued at the
\* coordinates the pointer was moved toward: everything before the click is
\* a move, and the last one ends on the click point (within the truncation
\* to a whole pixel and the 2 px jitter of a waypoint).
C26_TurnstileClickTarget ==
    (op \in TurnstileClickOps /\ pc = "done") =>
        LET b == args.box
        IN /\ Len(events) >= 2
           /\ LastEvent.type = "click"
           /\ LastEvent.x = 4 * b.x + (IF b.width < 140 THEN b.width ELSE 140)
           /\ LastEvent.y = 4 * b.y + 2 * b.height
           /\ LastEvent.x - 4 * b.x <= 140
           /\ \A i \in 1..(Len(events) - 1) : events[i].type = "move"
           /\ MoveNear(events[Len(events) - 1], LastEvent.x, LastEvent.y, 12)

C26_Witness ==
    /\ op = "cf._click_turnstile_checkbox"
    /\ pc = "done"
    /\ args.box.width = 139
    /\ LastEvent = Ev("click", 139, 48)
    /\ Len(events) = 18

(***************************************************************************)
(* Properties of the cookie-banner detection                               *)
(***************************************************************************)
ContainerVisible(d) ==
    \E i \in 1..Len(COOKIE_MODAL_SELECTORS) :
        \E k \in COOKIE_MODAL_SELECTORS[i] : d[k] = "visible"

\* C27: detect_cookie_modal returns true only if the page content holds a
\* cookie keyword and at least one known cookie container selector has a
\* visible element.
C27_DetectionIsConjunction ==
    (/\ op \in {"detect_cookie_modal", "utils.detect_cookie_modal"}
     /\ pc = "done"
     /\ ret = "true") =>
        has_cookie_text(dom) /\ ContainerVisible(dom)

\* the class of handlers/cookie_handler.py does return true only then
HandlerDetectionIsConjunction ==
    (op = "detect_cookie_modal" /\ pc = "done" /\ ret = "true") =>
        has_cookie_text(dom) /\ ContainerVisible(dom)

(***************************************************************************)
(* Properties of the puzzle marker                                         *)
(***************************************************************************)
\* the page shows the literal text 'Slide to complete'
SlideMarker(d) == d["text_slide"] = "visible"

\* C28: whenever challenge handling runs on a page that shows the text
\* 'Slide to complete', solve_puzzle_slider is invoked (the page of a
\* finished auto_solve that still shows the marker showed it throughout).
C28_PuzzleSolverOnMarker ==
    (op = "auto_solve" /\ pc = "done" /\ SlideMarker(dom)) =>
        \E i \in 1..Len(calls) : calls[i].name = "solve_puzzle_slider"

(***************************************************************************)
(* Properties of the accepted control                                      *)
(***************************************************************************)
RejectControl(k) == Contains(Lower(CookieElement(k).text), <<"reject">>)

\* C29: accept_cookies returns true only after it clicked a control that
\* accepts cookies: whatever it clicks, through the selector chain or
\* through the script fallback, is never a reject control.
C29_NeverClicksReject ==
    (op = "accept_cookies" /\ pc = "done" /\ ret = "true") =>
        /\ Clicked # {}
        /\ \A k \in Clicked : ~RejectControl(k)

\* the script fallback never clicks a reject control
FallbackNeverClicksReject ==
    (/\ op = "accept_cookies"
     /\ pc = "done"
     /\ ret = "true"
     /\ strategy = Len(COOKIE_ACCEPT_SELECTORS) + 1) =>
        /\ Clicked # {}
        /\ \A k \in Clicked : ~RejectControl(k)

(***************************************************************************)
(* Properties of the single detection record                               *)
(***************************************************************************)
\* the step leaves stage k: it calls the solver of the stage, or skips it
StageRuns(k) ==
    IF k = 1 THEN pc' = "cf_entry"
    ELSE /\ Len(calls') = Len(calls) + 1
         /\ calls'[Len(calls')].name = StageOrder[k]

\* C30: auto_solve classifies the page once, before any solver, and decides
\* every stage from that record: the record is the classification of the
\* page at the start of the call, it never changes while the call runs, and
\* a stage runs exactly when its flag is set in it, whatever the page shows
\* by then.
C30_SingleDetectionRecord ==
    [][ /\ (pc = "idle" /\ op' = "auto_solve") =>
              /\ detection' \in {detect_antibot(title, dom, F) : F \in DetectFaultSets}
              /\ calls' = calls
        /\ (op = "auto_solve" /\ pc # "idle") => detection' = detection
        /\ \A k \in 1..Len(StageOrder) :
              (op = "auto_solve" /\ pc = StagePc(k) /\ pc' # pc) =>
                  (StageRuns(k) <=> detection[StageFlag[k]]) ]_vars

\* a stage whose marker went away has run, a stage whose marker came up
\* after the classification has not
C30_Witness ==
    /\ op = "auto_solve"
    /\ pc = "done"
    /\ Names(calls) = <<"solve_slider">>
    /\ dom["slider_track"] = "absent"
    /\ dom["press_hold_btn"] = "visible"
    /\ ~detection["has_press_hold"]
    /\ detection["has_slider"]

(***************************************************************************)
(* Properties of the Cloudflare flags                                      *)
(***************************************************************************)
\* C31: in every detection record detect_antibot returns,
\* has_cloudflare_turnstile implies has_cloudflare.
C31_TurnstileImpliesCloudflare ==
    Classified =>
        (detection["has_cloudflare_turnstile"] => detection["has_cloudflare"])

C31_Witness ==
    /\ Classified
    /\ detection["has_cloudflare_turnstile"]
    /\ detection["has_cloudflare"]
    /\ dom["ifr_cf_widget"] # "absent"
    /\ ~Present(dom, SelCfHostIframe)
    /\ ~is_cloudflare_challenge_page(title, dom, {})
    /\ faults = {"detect.slider"}

(***************************************************************************)
(* Properties of the widget-solver budget                                  *)
(***************************************************************************)
\* the calls of solve_cloudflare_turnstile a stage solver makes: one at the
\* head of handle_cloudflare, one at the head of solve_human_verify
WidgetCallsOf(name) ==
    IF name \in {"handle_cloudflare", "solve_human_verify"} THEN 1 ELSE 0

RECURSIVE WidgetCallsIn(_)
WidgetCallsIn(cs) ==
    IF cs = <<>> THEN 0
    ELSE WidgetCallsOf(cs[1].name) + WidgetCallsIn(Tail(cs))

\* C32: one auto_solve call with default parameters invokes the widget
\* solver at most 5 times: at most 3 times in the full-solve routine, once
\* in the managed-challenge fallback and once in the human-verify stage;
\* the routine's invocations that report a click are no more than its
\* invocations.
C32_WidgetSolverBudget ==
    op = "auto_solve" =>
        /\ cf.attempt <= 3
        /\ cf.clicks <= cf.attempt
        /\ WidgetCallsIn(calls) <= 2
        /\ cf.attempt + WidgetCallsIn(calls) <= 5

C32_Witness ==
    /\ op = "auto_solve"
    /\ pc = "done"
    /\ cf.attempt = 3
    /\ cf.clicks = 3
    /\ WidgetCallsIn(calls) = 2
    /\ ret = "true"

(***************************************************************************)
(* Properties of the press-and-hold cycle                                  *)
(***************************************************************************)
PressHoldDone == op = "solve_press_and_hold" /\ pc = "done"

\* the button is there and its bounding box was obtained
ButtonBoxed ==
    /\ faults \cap {"ph.count", "ph.box"} = {}
    /\ Present(dom, SelPressHold)
    /\ dom[First(dom, SelPressHold)] = "visible"

\* page.mouse.down() / up() was called, whether or not it went through
Attempted(t, site) == Count(t) = 1 \/ (Count(t) = 0 /\ site \in faults)

PressHoldCycle ==
    /\ ~ButtonBoxed => (Count("down") = 0 /\ ret = "false")
    /\ ButtonBoxed => (Attempted("down", "ph.down") /\ Attempted("up", "ph.up"))
    /\ Count("down") <= 1
    /\ Count("up") <= Count("down")
    /\ ret = "true" => (Count("down") = 1 /\ Count("up") = 1)

\* C33: solve_press_and_hold issues no pointer-down when the button is
\* absent or has no bounding box, and returns false; otherwise it issues
\* exactly one pointer-down followed by exactly one pointer-up attempt
\* before it returns; it returns true only if both went through.
C33_PressHoldCycle == PressHoldDone => PressHoldCycle

\* the cycle is complete whenever the move, the press and the hold go through
PressHoldCycleWhenHoldGoesThrough ==
    (PressHoldDone /\ faults \cap {"ph.move", "ph.down", "ph.sleep"} = {}) =>
        PressHoldCycle

\* the hold raised: the pointer is left pressed, no release was attempted
PressHoldLeftPressed ==
    /\ PressHoldDone
    /\ faults = {"ph.sleep"}
    /\ Count("down") = 1
    /\ Count("up") = 0
    /\ ret = "false"

(***************************************************************************)
(* Properties of the two managed-challenge implementations                 *)
(***************************************************************************)
ClicksOf(ev) == SelectSeq(ev, LAMBDA e : e.type = "click")

\* a step the full-solve routine of AntibotHandler can take
AntibotChallengeStep ==
    ChallengeEntry \/ ChallengeAttempt \/ ChallengeCheck \/ ChallengeGiveUp

\* C34: CloudflareHandler and AntibotHandler implement the same behaviour:
\* on every page and whatever page operations fail, is_challenge_page gives
\* the verdict of is_cloudflare_challenge_page, solve_turnstile gives the
\* verdict, the strategy and the clicks of solve_cloudflare_turnstile, and
\* every step of solve_challenge is a step solve_cloudflare_challenge takes
\* from the same state (same verdicts, same attempts, same clicks).
C34_HandlersAgree ==
    /\ []((op = "cf.is_challenge_page" /\ pc = "done") =>
             ret = BoolStr(is_cloudflare_challenge_page(title, dom, faults)))
    /\ []((op = "cf.solve_turnstile" /\ pc = "done") =>
             LET a == solve_cloudflare_turnstile(dom, faults)
             IN /\ ret = a.ret
                /\ strategy = a.strat
                /\ ClicksOf(events) = ClicksOf(a.ev))
    /\ [][(op = "cf.solve_challenge" /\ pc \in {"cf_entry", "cf_attempt", "cf_check"}
             /\ <<title, dom>>' = <<title, dom>>) =>
              AntibotChallengeStep]_vars

C34_Witness ==
    /\ op = "cf.solve_challenge"
    /\ pc = "done"
    /\ ret = "true"
    /\ cf.attempt = 2
    /\ cf.clicks = 2
    /\ strategy = 3

(***************************************************************************)
(* Properties of the accept chain                                          *)
(***************************************************************************)
AcceptDone == op = "accept_cookies" /\ pc = "done"

\* selector i locates a button whose first match is visible and on which
\* the normal click or else the forced click goes through
EntrySucceeds(i) ==
    /\ Site("ck.count", i) \notin faults
    /\ CookieLocator(i, dom) # {}
    /\ LET button == FirstOf(CookieLocator(i, dom))
       IN /\ Site("ck.visible", button) \notin faults
          /\ dom[button] = "visible"
          /\ Site("ck.click", button) \notin faults
                \/ Site("ck.force", button) \notin faults

SucceedingEntries == {i \in 1..Len(COOKIE_ACCEPT_SELECTORS) : EntrySucceeds(i)}

\* C35: accept_cookies completes at most one click per call: the click is
\* on the first match of the first selector in list order whose first match
\* is visible and on which the normal click or, that failing, the forced
\* click goes through; the script fallback runs only if no selector click
\* went through; it returns true if and only if some click went through.
C35_OneSuccessfulClick ==
    AcceptDone =>
        /\ Count("click") <= 1
        /\ Len(events) = Count("click")
        /\ ret = "true" <=> Count("click") = 1
        /\ SucceedingEntries # {} =>
              /\ strategy \in SucceedingEntries
              /\ \A i \in SucceedingEntries : strategy <= i
              /\ events = <<ClickOn(FirstOf(CookieLocator(strategy, dom)))>>
        /\ SucceedingEntries = {} =>
              /\ strategy \in {0, Len(COOKIE_ACCEPT_SELECTORS) + 1}
              /\ ret = "true" => events = <<ClickOn(FirstOf(FallbackCandidates(dom)))>>

\* the normal click on the first button fails, the forced one goes through
C35_Witness ==
    /\ AcceptDone
    /\ faults = {Site("ck.click", "ck_accept_all")}
    /\ dom["ck_accept_all"] = "visible"
    /\ ret = "true"
    /\ strategy = 2
    /\ events = <<ClickOn("ck_accept_all")>>

\* both clicks on the first button fail: the next selector is tried
BothClicksFailNextSelector ==
    /\ AcceptDone
    /\ faults = {Site("ck.click", "ck_accept_all"), Site("ck.force", "ck_accept_all")}
    /\ dom["ck_accept_all"] = "visible"
    /\ ret = "true"
    /\ strategy > 2
    /\ events # <<ClickOn("ck_accept_all")>>

(***************************************************************************)
(* main: the URL loop, the SIGTERM handler and ChromeManager.cleanup       *)
(*                                                                         *)
(* pc is the position of main; args holds its locals, the class attribute  *)
(* ChromeManager.process and the activations of cleanup that are under way *)
(* (the signal handler runs on top of whatever it interrupted)             *)
(***************************************************************************)
\* at most this many URLs are read from the input file
MaxUrls == 2
\* at most this many SIGTERMs are delivered to the program
MaxSigterms == 2
\* at most this many times the user presses Ctrl+C
MaxInterrupts == 2

MainArgs(n) ==
    [urls |-> n, results |-> <<>>, looped |-> FALSE, exc |-> "none",
     process |-> FALSE, stack |-> <<>>, terms |-> 0, sigterms |-> 0,
     interrupts |-> 0, called |-> 0, returned |-> 0, atexit |-> TRUE]

MainRest == UNCHANGED <<title, dom, faults, detection, events, calls, cf,
                        strategy, solved_any>>

InMain == op = "main" /\ pc \notin {"idle", "done"}

\* main itself runs: no handler and no cleanup is on top of it
MainRuns == InMain /\ args.stack = <<>>

Top == args.stack[Len(args.stack)]

Pop(st) == SubSeq(st, 1, Len(st) - 1)

CleanupFrame(by) == [by |-> by, at |-> "c_test"]

\* where main continues when exception exc reaches it at position p: the
\* inner finally (browser.close), except KeyboardInterrupt, the outer
\* finally, or out of main
Land(p, exc) ==
    CASE p \in {"m_create", "m_close"} ->
            [pc |-> "m_finally", exc |-> IF exc = "KeyboardInterrupt" THEN "none" ELSE exc]
      [] p = "m_loop" -> [pc |-> "m_close", exc |-> exc]
      [] p \in {"m_finally", "m_cleanup", "m_unreg", "m_after", "m_exit"} ->
            [pc |-> "m_exit", exc |-> exc]
      [] OTHER -> [pc |-> "done", exc |-> exc]

\* results = []; atexit.register(ChromeManager.cleanup); browser = None
MainStart ==
    /\ pc = "idle"
    /\ \E n \in 1..MaxUrls : args' = MainArgs(n)
    /\ op' = "main"
    /\ pc' = "m_create"
    /\ ret' = "none"
    /\ MainRest

\* browser, page = GenericPage.create_browser_context(playwright): Chrome is
\* launched and tracked, then the connection is made; either may raise
CreateBrowser ==
    /\ MainRuns
    /\ pc = "m_create"
    /\ \E outcome \in {"ok", "launch_raises", "connect_raises"} :
          /\ args' = [args EXCEPT !.process = outcome # "launch_raises",
                                  !.looped = outcome = "ok",
                                  !.exc = IF outcome = "ok" THEN "none" ELSE "Exception"]
          /\ pc' = IF outcome = "ok" THEN "m_loop" ELSE "m_finally"
    /\ UNCHANGED <<op, ret>>
    /\ MainRest

\* process_url on the next URL: the page object is built outside the try, so
\* its constructor raising leaves process_url; an exception raised inside
\* the try becomes a result with success = False
ProcessUrlOutcomes == {"success", "converted", "constructor_raises"}

\* for index, url in enumerate(urls, 1): results.append(process_url(...))
ProcessUrl ==
    /\ MainRuns
    /\ pc = "m_loop"
    /\ IF Len(args.results) < args.urls
       THEN \E outcome \in ProcessUrlOutcomes :
               IF outcome = "constructor_raises"
               THEN /\ args' = [args EXCEPT !.exc = "Exception"]
                    /\ pc' = "m_close"
               ELSE /\ args' = [args EXCEPT !.results =
                                   Append(@, [index |-> Len(@) + 1,
                                              success |-> outcome = "success"])]
                    /\ pc' = "m_loop"
       ELSE /\ pc' = "m_close"
            /\ UNCHANGED args
    /\ UNCHANGED <<op, ret>>
    /\ MainRest

\* finally: browser.close(), its exceptions swallowed; a pending
\* KeyboardInterrupt is then caught by except KeyboardInterrupt
CloseBrowser ==
    /\ MainRuns
    /\ pc = "m_close"
    /\ args' = [args EXCEPT !.exc = IF @ = "KeyboardInterrupt" THEN "none" ELSE @]
    /\ pc' = "m_finally"
    /\ UNCHANGED <<op, ret>>
    /\ MainRest

\* finally: ChromeManager.cleanup()
MainCleanupCall ==
    /\ MainRuns
    /\ pc = "m_finally"
    /\ args' = [args EXCEPT !.stack = Append(@, CleanupFrame("main")),
                            !.called = @ + 1]
    /\ pc' = "m_cleanup"
    /\ UNCHANGED <<op, ret>>
    /\ MainRest

\* if cls.process:
CleanupTest ==
    /\ InMain
    /\ args.stack # <<>>
    /\ Top.at = "c_test"
    /\ args' = [args EXCEPT !.stack[Len(args.stack)].at =
                               IF args.process THEN "c_term" ELSE "c_pkill"]
    /\ UNCHANGED <<op, pc, ret>>
    /\ MainRest

\* os.killpg(os.getpgid(cls.process.pid), signal.SIGTERM); time.sleep(1);
\* with cls.process already None the attribute access raises, and except
\* Exception passes
CleanupTerm ==
    /\ InMain
    /\ args.stack # <<>>
    /\ Top.at = "c_term"
    /\ args' = [args EXCEPT !.stack[Len(args.stack)].at = "c_kill",
                            !.terms = IF args.process THEN @ + 1 ELSE @]
    /\ UNCHANGED <<op, pc, ret>>
    /\ MainRest

\* if cls.process.poll() is None: os.killpg(..., signal.SIGKILL)
CleanupKill ==
    /\ InMain
    /\ args.stack # <<>>
    /\ Top.at = "c_kill"
    /\ args' = [args EXCEPT !.stack[Len(args.stack)].at = "c_clear"]
    /\ UNCHANGED <<op, pc, ret>>
    /\ MainRest

\* cls.process = None
CleanupClear ==
    /\ InMain
    /\ args.stack # <<>>
    /\ Top.at = "c_clear"
    /\ args' = [args EXCEPT !.stack[Len(args.stack)].at = "c_pkill",
                            !.process = FALSE]
    /\ UNCHANGED <<op, pc, ret>>
    /\ MainRest

\* the pkill of remaining instances, then cleanup returns: to main's
\* finally, to the exit machinery, or to the signal handler, whose
\* sys.exit(1) raises SystemExit into everything the handler interrupted
CleanupReturn ==
    /\ InMain
    /\ args.stack # <<>>
    /\ Top.at = "c_pkill"
    /\ CASE Top.by = "main" ->
              /\ args' = [args EXCEPT !.stack = Pop(@), !.returned = @ + 1]
              /\ pc' = "m_unreg"
              /\ UNCHANGED ret
         [] Top.by = "atexit" ->
              /\ args' = [args EXCEPT !.stack = Pop(@), !.returned = @ + 1]
              /\ pc' = "done"
              /\ ret' = args.exc
         [] OTHER ->
              LET to == Land(pc, "SystemExit")
              IN /\ args' = [args EXCEPT !.stack = <<>>, !.returned = @ + 1,
                                         !.exc = to.exc]
                 /\ pc' = to.pc
                 /\ ret' = IF to.pc = "done" THEN to.exc ELSE ret
    /\ UNCHANGED op
    /\ MainRest

\* atexit.unregister(ChromeManager.cleanup); a pending exception then leaves
\* main
MainUnregister ==
    /\ MainRuns
    /\ pc = "m_unreg"
    /\ args' = [args EXCEPT !.atexit = FALSE]
    /\ pc' = IF args.exc = "none" THEN "m_after" ELSE "m_exit"
    /\ UNCHANGED <<op, ret>>
    /\ MainRest

\* save_results(results, session_dir) and the summary
SaveResults ==
    /\ MainRuns
    /\ pc = "m_after"
    /\ pc' = "m_exit"
    /\ UNCHANGED <<op, ret, args>>
    /\ MainRest

\* the interpreter exits: the atexit callback runs if still registered
InterpreterExit ==
    /\ MainRuns
    /\ pc = "m_exit"
    /\ IF args.atexit
       THEN /\ args' = [args EXCEPT !.stack = Append(@, CleanupFrame("atexit")),
                                    !.called = @ + 1, !.atexit = FALSE]
            /\ pc' = "x_cleanup"
            /\ UNCHANGED ret
       ELSE /\ pc' = "done"
            /\ ret' = args.exc
            /\ UNCHANGED args
    /\ UNCHANGED op
    /\ MainRest

\* SIGTERM is delivered: _sigterm_handler starts on top of what runs
Sigterm ==
    /\ InMain
    /\ args.sigterms < MaxSigterms
    /\ args' = [args EXCEPT !.stack = Append(@, CleanupFrame("handler")),
                            !.called = @ + 1, !.sigterms = @ + 1]
    /\ UNCHANGED <<op, pc, ret>>
    /\ MainRest

\* Ctrl+C: KeyboardInterrupt is raised in what runs; no handler and no
\* cleanup catches it (except Exception does not), so it reaches main
Interrupt ==
    /\ InMain
    /\ args.interrupts < MaxInterrupts
    /\ LET to == Land(pc, "KeyboardInterrupt")
       IN /\ args' = [args EXCEPT !.stack = <<>>, !.interrupts = @ + 1,
                                  !.exc = to.exc]
          /\ pc' = to.pc
          /\ ret' = IF to.pc = "done" THEN to.exc ELSE ret
    /\ UNCHANGED op
    /\ MainRest

NextMain ==
    \/ MainStart
    \/ CreateBrowser
    \/ ProcessUrl
    \/ CloseBrowser
    \/ MainCleanupCall
    \/ CleanupTest
    \/ CleanupTerm
    \/ CleanupKill
    \/ CleanupClear
    \/ CleanupReturn
    \/ MainUnregister
    \/ SaveResults
    \/ InterpreterExit
    \/ Sigterm
    \/ Interrupt

InitMain == InitOver({TitleShop}, {})

SpecMain == InitMain /\ [][NextMain]_vars

\* main has left the browser-processing block for good
MainLeft == op = "main" /\ pc \in {"m_after", "m_exit", "x_cleanup", "done"}

\* neither SIGTERM nor Ctrl+C has arrived
Undisturbed == args.sigterms = 0 /\ args.interrupts = 0

OnePerUrl ==
    /\ Len(args.results) = args.urls
    /\ \A i \in 1..Len(args.results) : args.results[i].index = i

\* C36: every exception of one URL's processing becomes a failed result and
\* the loop goes on, so that once the loop has been entered and nothing
\* interrupts it, main leaves with exactly one result per input URL, in
\* input order
C36_OneResultPerUrl ==
    (MainLeft /\ args.looped /\ Undisturbed) => OnePerUrl

\* what does hold: a main that reaches save_results without a pending
\* exception has one result per URL
OneResultPerUrlWhenSaved ==
    (op = "main" /\ pc = "m_after" /\ Undisturbed) => OnePerUrl

\* the constructor of the page object raised on the second URL: main is
\* gone with one result for two URLs
LoopAbortedByConstructor ==
    /\ op = "main" /\ pc = "done" /\ Undisturbed
    /\ args.urls = 2 /\ Len(args.results) = 1
    /\ ret = "Exception"

\* C37: once main is in the browser-processing block, a call of
\* ChromeManager.cleanup has run to its end before main goes on to save the
\* results or exits, whichever way the block is left
C37_CleanupBeforeLeaving ==
    MainLeft => args.returned >= 1

\* the same with cleanup merely entered
CleanupCalledBeforeLeaving ==
    MainLeft => args.called >= 1

\* what does hold: unless a Ctrl+C lands inside the outer finally, a cleanup
\* call has returned when main leaves
CleanupBeforeLeavingUnlessInterrupted ==
    (MainLeft /\ ~(args.exc = "KeyboardInterrupt")) => args.returned >= 1

\* one Ctrl+C while the cleanup of the finally block sleeps after its
\* SIGTERM: main has exited, Chrome is still tracked and no cleanup call has
\* returned
CleanupCutShort ==
    /\ op = "main" /\ pc = "m_exit"
    /\ args.sigterms = 0 /\ args.interrupts = 1
    /\ args.called = 1 /\ args.returned = 0
    /\ args.process /\ args.terms = 1

ProcessClearedAfterCleanup ==
    op = "main" => (args.returned >= 1 => ~args.process)

\* SIGTERM arrives while the cleanup of main's finally block is in its
\* sleep: the handler's cleanup signals the same process group again
SigtermSentTwice ==
    /\ op = "main" /\ args.interrupts = 0 /\ args.sigterms = 1
    /\ args.terms = 2
    /\ Len(args.stack) = 2
    /\ args.stack[1].by = "main" /\ args.stack[2].by = "handler"

(***************************************************************************)
(* BasePage.get_title                                                      *)
(***************************************************************************)
\* for attempt in range(3)
TitleAttempts == 3

\* messages of the exceptions page.title() raises
MsgContextDestroyed == <<"Execution", "context", "was", "destroyed">>
MsgNavigation == <<"Navigation", "failed">>
MsgTargetClosed == <<"Target", "closed">>

TitleErrors == {MsgContextDestroyed, MsgNavigation, MsgTargetClosed}

\* the test with the second alternative left out
RetryOn_ContextOnly(msg) ==
    Contains(Lower(msg), <<"context", "was", "destroyed">>)

\* "context was destroyed" in str(e).lower() or "navigation" in str(e).lower()
RetryOn(msg) ==
    \/ Contains(Lower(msg), <<"context", "was", "destroyed">>)
    \/ Contains(Lower(msg), <<"navigation">>)

TitleRest == UNCHANGED <<title, dom, faults, detection, events, calls, cf,
                         strategy, solved_any>>

GetTitleStart ==
    /\ pc = "idle"
    /\ op' = "get_title"
    /\ pc' = "gt_try"
    /\ args' = [attempt |-> 0, log |-> <<>>, result |-> <<>>]
    /\ ret' = "none"
    /\ TitleRest

\* one pass of the loop up to the except clause: page.title() returns, or
\* raises with a message that asks for a retry or does not
GetTitleAttempt ==
    /\ op = "get_title"
    /\ pc = "gt_try"
    /\ \E out \in {<<"ok">>} \cup TitleErrors :
          LET entry == [call |-> "title", out |-> out, read |-> title]
          IN IF out = <<"ok">>
             THEN /\ args' = [args EXCEPT !.log = Append(@, entry),
                                          !.result = title]
                  /\ pc' = "done"
                  /\ ret' = "returned"
             ELSE IF RetryOn(out)
             THEN /\ args' = [args EXCEPT !.log = Append(@, entry)]
                  /\ pc' = "gt_wait"
                  /\ UNCHANGED ret
             ELSE /\ args' = [args EXCEPT !.log = Append(@, entry),
                                          !.result = <<>>]
                  /\ pc' = "done"
                  /\ ret' = "returned"
    /\ UNCHANGED op
    /\ TitleRest

\* time.sleep(1.0) and wait_for_load_state("domcontentloaded"), whose
\* exception is swallowed; then the next pass, or return "" after the last
GetTitleWait ==
    /\ op = "get_title"
    /\ pc = "gt_wait"
    /\ \E raised \in BOOLEAN :
          LET entry == [call |-> "wait", out |-> <<BoolStr(raised)>>, read |-> title]
              n == args.attempt + 1
          IN /\ args' = [args EXCEPT !.log = Append(@, entry), !.attempt = n,
                                     !.result = <<>>]
             /\ pc' = IF n < TitleAttempts THEN "gt_try" ELSE "done"
             /\ ret' = IF n < TitleAttempts THEN ret ELSE "returned"
    /\ UNCHANGED op
    /\ TitleRest

NextTitle == GetTitleStart \/ GetTitleAttempt \/ GetTitleWait \/ PageChanges

InitTitle == InitOver(Titles, {})

SpecTitle == InitTitle /\ [][NextTitle]_vars

IsTitleCall(e) == e.call = "title"

TitleCalls == SelectSeq(args.log, IsTitleCall)

NavigationMessage(out) == out \in {MsgContextDestroyed, MsgNavigation}

\* C39: get_title reads the title at most 3 times; it returns the title of
\* the first read that succeeds, "" at once on an error that is not a
\* navigation / context-destroyed error, reads again after waiting on such
\* an error, and "" when all 3 reads fail; it always returns
C39_GetTitle ==
    op = "get_title" =>
        /\ Len(TitleCalls) <= 3
        /\ \A i \in 1..Len(args.log) :
              LET e == args.log[i]
              IN /\ (i < Len(args.log) /\ IsTitleCall(e))
                       => (NavigationMessage(e.out) /\ args.log[i + 1].call = "wait")
                 /\ (i = Len(args.log) /\ IsTitleCall(e) /\ NavigationMessage(e.out))
                       => pc = "gt_wait"
                 /\ (i = Len(args.log) /\ ~IsTitleCall(e) /\ Len(TitleCalls) < 3)
                       => pc = "gt_try"
        /\ pc = "done" =>
              LET last == TitleCalls[Len(TitleCalls)]
              IN /\ ret = "returned"
                 /\ args.result = IF last.out = <<"ok">> THEN last.read ELSE <<>>
                 /\ NavigationMessage(last.out) => Len(TitleCalls) = 3

\* two reads failed on a navigation in progress, the third one returned the
\* title of the page that had loaded meanwhile
C39_Witness ==
    /\ op = "get_title" /\ pc = "done"
    /\ Len(TitleCalls) = 3
    /\ TitleCalls[1].out = MsgContextDestroyed
    /\ TitleCalls[2].out = MsgNavigation
    /\ TitleCalls[3].out = <<"ok">>
    /\ TitleCalls[1].read = TitleJustAMoment
    /\ args.result = TitleShop

\* all three reads failed on a navigation in progress
ThreeReadsFailed ==
    /\ op = "get_title" /\ pc = "done"
    /\ Len(TitleCalls) = 3
    /\ NavigationMessage(TitleCalls[3].out)
    /\ args.result = <<>>

(***************************************************************************)
(* HumanBehavior.random_delay                                              *)
(***************************************************************************)
\* Settings.MIN_ACTION_DELAY and Settings.MAX_ACTION_DELAY, in milliseconds
MIN_ACTION_DELAY == 100
MAX_ACTION_DELAY == 500

\* the millisecond values passed for min_ms and max_ms
DelayInputs == {0, 1, 50, 100, 200, 300, 500, 600}

\* an argument of random_delay: an integer, or left at its default None
DelayArgs == [given : {TRUE}, ms : DelayInputs] \cup {[given |-> FALSE, ms |-> 0]}

\* <argument> or <default>: None and 0 are both falsy
OrDefault(a, default) == IF a.given /\ a.ms # 0 THEN a.ms ELSE default

\* random_delay(min_ms, max_ms): random.randint(min_delay, max_delay) raises
\* ValueError on an empty range; otherwise the drawn delay is slept
RandomDelay ==
    /\ pc = "idle"
    /\ \E lo \in DelayArgs, hi \in DelayArgs :
          LET min_delay == OrDefault(lo, MIN_ACTION_DELAY)
              max_delay == OrDefault(hi, MAX_ACTION_DELAY)
          IN IF min_delay > max_delay
             THEN /\ args' = [min_ms |-> lo, max_ms |-> hi, delay |-> 0]
                  /\ ret' = "raised"
             ELSE /\ \E d \in min_delay..max_delay :
                        args' = [min_ms |-> lo, max_ms |-> hi, delay |-> d]
                  /\ ret' = "returned"
    /\ op' = "random_delay"
    /\ pc' = "done"
    /\ UNCHANGED <<title, dom, faults, detection, events, calls, cf, strategy,
                   solved_any>>

NextDelay == RandomDelay

InitDelay == InitOver({TitleShop}, {})

SpecDelay == InitDelay /\ [][NextDelay]_vars

\* random_delay has returned or raised on two explicit integers
\* 0 <= min_ms <= max_ms
ExplicitDelayDone ==
    /\ op = "random_delay" /\ pc = "done"
    /\ args.min_ms.given /\ args.max_ms.given
    /\ args.min_ms.ms <= args.max_ms.ms

\* C40: for explicit integers 0 <= min_ms <= max_ms, random_delay does not
\* raise and sleeps for a duration within [min_ms, max_ms] milliseconds
C40_DelayWithinArguments ==
    ExplicitDelayDone =>
        /\ ret = "returned"
        /\ args.min_ms.ms <= args.delay
        /\ args.delay <= args.max_ms.ms

\* what does hold: with both arguments explicit and nonzero, and with
\* min_ms <= max_ms, the delay lies within them and nothing is raised
DelayWithinNonzeroArguments ==
    (ExplicitDelayDone /\ args.min_ms.ms # 0) => 
        /\ ret = "returned"
        /\ args.min_ms.ms <= args.delay
        /\ args.delay <= args.max_ms.ms

\* random_delay(0, 50): the default minimum replaces the explicit 0 and the
\* range 100..50 is empty
DelayRaisesOnZeroMinimum ==
    /\ ExplicitDelayDone
    /\ args.min_ms.ms = 0 /\ args.max_ms.ms = 50
    /\ ret = "raised"

\* random_delay(0, 0) sleeps for a duration drawn from the defaults
DelayFromDefaultsOnZero ==
    /\ ExplicitDelayDone
    /\ args.min_ms.ms = 0 /\ args.max_ms.ms = 0
    /\ ret = "returned" /\ args.delay = 300

=============================================================================
